---- MODULE Spec2Model ----
(***************************************************************************)
(* A model of the generator algebra of @waynevanson/generator: the linear  *)
(* congruential seed advance (src/lcg.ts), the Gen class with its          *)
(* combinators and destructors (src/gen/class.ts), the instances seeded,   *)
(* stated, decimal and of (src/gen/index.ts), the sized constructor with   *)
(* its module-level distribution cache (src/gen/sized.ts), uniform         *)
(* (src/gen/number/uniform.ts), positive and negative                      *)
(* (src/gen/positive.ts) and the scalers of src/gen/util.ts.               *)
(*                                                                         *)
(* JavaScript numbers are IEEE-754 doubles and seeds range up to 2^32 - 1, *)
(* which is beyond the integers TLC evaluates natively.  Whole numbers are *)
(* therefore little-endian sequences of 14-bit digits without leading      *)
(* zero digits (zero is <<>>), with the arithmetic written out below.      *)
(* Seeds are whole numbers, rounded to 53 significant bits wherever the    *)
(* code computes a product or a sum; weights, decimals and scaled values   *)
(* are doubles with sign, significand and exponent.                        *)
(***************************************************************************)
EXTENDS Integers, Sequences, FiniteSets, TLC

(***************************************************************************)
(* Whole-number arithmetic on digit sequences.                             *)
(***************************************************************************)
Base == 2 ^ 14

\* the number of bits of a digit
DigitBits == CHOOSE b \in 1..30 : 2 ^ b = Base

\* F(x) with x evaluated first: the value of an argument is computed before
\* the call that receives it, as JavaScript does
With(x, F(_)) == CHOOSE z \in {F(v) : v \in {x}} : TRUE

\* F(x, y) with x and y evaluated first
With2(x, y, F(_, _)) == CHOOSE z \in {F(v, w) : v \in {x}, w \in {y}} : TRUE

RECURSIVE Norm(_)
Norm(x) ==
  IF x = <<>> THEN <<>>
  ELSE IF x[Len(x)] = 0 THEN Norm(SubSeq(x, 1, Len(x) - 1))
  ELSE x

RECURSIVE FromInt(_)
FromInt(n) == IF n = 0 THEN <<>> ELSE <<n % Base>> \o FromInt(n \div Base)

Digit(x, i) == IF i <= Len(x) THEN x[i] ELSE 0

\* the digits of the number whose i-th column holds c[i], from column i on
RECURSIVE Carry(_, _, _)
Carry(c, i, carry) ==
  IF i > Len(c) /\ carry = 0 THEN <<>>
  ELSE LET t == Digit(c, i) + carry
       IN  <<t % Base>> \o Carry(c, i + 1, t \div Base)

\* the number whose i-th column holds c[i]
Digits(c) == With(c, LAMBDA f : With(Carry(f, 1, 0), Norm))

NatAdd(x, y) ==
  Digits([i \in 1..(IF Len(x) < Len(y) THEN Len(y) ELSE Len(x)) |->
            Digit(x, i) + Digit(y, i)])

RECURSIVE NatLessFrom(_, _, _)
NatLessFrom(x, y, i) ==
  IF i = 0 THEN FALSE
  ELSE IF x[i] # y[i] THEN x[i] < y[i]
  ELSE NatLessFrom(x, y, i - 1)

\* x < y, for normalised x and y
NatLess(x, y) ==
  IF Len(x) # Len(y) THEN Len(x) < Len(y) ELSE NatLessFrom(x, y, Len(x))

NatLeq(x, y) == ~NatLess(y, x)

RECURSIVE SubFrom(_, _, _, _)
SubFrom(x, y, i, borrow) ==
  IF i > Len(x) THEN <<>>
  ELSE LET t == Digit(x, i) - Digit(y, i) - borrow
       IN  IF t < 0 THEN <<t + Base>> \o SubFrom(x, y, i + 1, 1)
           ELSE <<t>> \o SubFrom(x, y, i + 1, 0)

\* x - y, for x >= y
NatSub(x, y) == With(SubFrom(x, y, 1, 0), Norm)

\* the sum of x[i] * y[k + 1 - i] over the i from i to last
RECURSIVE Column(_, _, _, _, _)
Column(x, y, k, i, last) ==
  IF i > last THEN 0 ELSE x[i] * y[k + 1 - i] + Column(x, y, k, i + 1, last)

\* long multiplication: column k sums the digit products of weight k
NatMul(x, y) ==
  IF x = <<>> \/ y = <<>> THEN <<>>
  ELSE Digits([k \in 1..(Len(x) + Len(y) - 1) |->
                 Column(x, y, k, IF k < Len(y) THEN 1 ELSE k + 1 - Len(y),
                        IF k < Len(x) THEN k ELSE Len(x))])

Double(x) == NatAdd(x, x)

\* 2^k: k \div DigitBits zero digits below the digit 2^(k % DigitBits)
Pow2(k) == [i \in 1..(k \div DigitBits) |-> 0] \o <<2 ^ (k % DigitBits)>>

\* x % 2^k: the digits below digit k \div DigitBits and the low bits of that
\* digit
ModPow2(x, k) ==
  With([i \in 1..(IF Len(x) <= k \div DigitBits THEN Len(x) ELSE k \div DigitBits + 1) |->
          IF i <= k \div DigitBits THEN x[i] ELSE x[i] % (2 ^ (k % DigitBits))], Norm)

\* x % m for m > 0, by x mod m = (x mod 2m) mod m and x mod 2m < 2m
RECURSIVE NatModBy(_, _)
NatModBy(x, m) ==
  IF NatLess(x, m) THEN x
  ELSE With(NatModBy(x, Double(m)), LAMBDA r :
         IF NatLess(r, m) THEN r ELSE NatSub(r, m))

RECURSIVE TopBits(_)
TopBits(d) == IF d = 0 THEN 0 ELSE 1 + TopBits(d \div 2)

\* number of significant bits of x
BitLength(x) ==
  IF x = <<>> THEN 0 ELSE DigitBits * (Len(x) - 1) + TopBits(x[Len(x)])

\* x % m for m > 0
NatMod(x, m) ==
  IF m = Pow2(BitLength(m) - 1) THEN ModPow2(x, BitLength(m) - 1) ELSE NatModBy(x, m)

(***************************************************************************)
(* The value a double holds for the whole number x: x itself up to 53      *)
(* significant bits, otherwise x rounded to 53 significant bits, ties to   *)
(* the even significand.                                                   *)
(***************************************************************************)
MantissaBits == 52 + 1   \* the 52 stored bits and the implicit leading one

ToDouble(x) ==
  With(x, LAMBDA u :
    IF BitLength(u) <= MantissaBits THEN u
    ELSE LET shift == BitLength(u) - MantissaBits
             unit  == Pow2(shift)
             half  == Pow2(shift - 1)
             rem   == ModPow2(u, shift)
             low   == NatSub(u, rem)
             odd   == NatLeq(unit, ModPow2(u, shift + 1))
             up    == NatLess(half, rem) \/ (rem = half /\ odd)
         IN  IF up THEN NatAdd(low, unit) ELSE low)

(***************************************************************************)
(* src/lcg.ts                                                              *)
(***************************************************************************)
A_MULTIPLIER == 1664525
C_CONSTANT == 1013904223
M_MODULUS == Pow2(32)
SEED_MAX == NatSub(M_MODULUS, <<1>>)

\* new Lcg(a, c, m)
Lcg(a, c, m) == [a |-> a, c |-> c, m |-> m]

\* export const lcg
lcg == Lcg(FromInt(A_MULTIPLIER), FromInt(C_CONSTANT), M_MODULUS)

\* Lcg.increment without the reduction: a * seed + c
LcgIncrementUnreduced(l, seed) ==
  With(ToDouble(NatMul(l.a, seed)), LAMBDA product :
    ToDouble(NatAdd(product, l.c)))

\* Lcg.increment: (this.a * seed + this.c) % this.m in double arithmetic
LcgIncrement(l, seed) ==
  With(ToDouble(NatMul(l.a, seed)), LAMBDA product :
    With(ToDouble(NatAdd(product, l.c)), LAMBDA sum : NatMod(sum, l.m)))

\* the function increment of the lcg module: (A_MULTIPLIER * seed + C_CONSTANT) % M_MODULUS
increment(seed) ==
  With(ToDouble(NatMul(FromInt(A_MULTIPLIER), seed)), LAMBDA product :
    With(ToDouble(NatAdd(product, FromInt(C_CONSTANT))), LAMBDA sum :
      NatMod(sum, M_MODULUS)))

(***************************************************************************)
(* Doubles.  A finite double is Flt(neg, m, e) and stands for m * 2^e      *)
(* (negated when neg), with m a whole number of at most 53 bits that is    *)
(* odd, or zero with e = 0, so that equal doubles are equal tuples and     *)
(* -0 differs from +0.  NaN and the infinities are values of their own.    *)
(* Every operation computes the exact result and rounds it to 53           *)
(* significant bits, ties to even, as +, -, * and / on JavaScript numbers  *)
(* do.  The exponent is not bounded: the numbers of the model stay far     *)
(* from the overflow and the subnormal range.                              *)
(***************************************************************************)
Flt(neg, m, e) == <<"flt", neg, m, e>>
NaN == <<"nan">>
Inf(neg) == <<"inf", neg>>
Zero(neg) == Flt(neg, <<>>, 0)

RECURSIVE LowZeroDigits(_, _)
LowZeroDigits(x, i) == IF x[i] # 0 THEN i - 1 ELSE LowZeroDigits(x, i + 1)

RECURSIVE LowZeroBits(_)
LowZeroBits(d) == IF d % 2 = 1 THEN 0 ELSE 1 + LowZeroBits(d \div 2)

\* the number of zero bits below the lowest set bit of x > 0
TrailingZeros(x) ==
  With(LowZeroDigits(x, 1), LAMBDA z : DigitBits * z + LowZeroBits(x[z + 1]))

\* x \div 2^k
ShiftRight(x, k) ==
  With([i \in 1..(Len(x) - k \div DigitBits) |->
          (x[i + k \div DigitBits] \div (2 ^ (k % DigitBits)))
            + (Digit(x, i + k \div DigitBits + 1) % (2 ^ (k % DigitBits)))
                * (2 ^ (DigitBits - (k % DigitBits)))], Norm)

\* x * 2^k
ShiftLeft(x, k) == IF k = 0 THEN x ELSE NatMul(x, Pow2(k))

\* the double m * 2^e for a whole number m of at most 53 significant bits
Canon(neg, m, e) ==
  IF m = <<>> THEN Zero(neg)
  ELSE With(TrailingZeros(m), LAMBDA t : Flt(neg, ShiftRight(m, t), e + t))

\* the double nearest to (m + f) * 2^e, where f = 0 when sticky is FALSE and
\* 0 < f < 1 when sticky is TRUE (m then has at least 54 bits)
Round(neg, m, e, sticky) ==
  With(ToDouble(IF sticky THEN NatAdd(Double(m), <<1>>) ELSE m), LAMBDA r :
    Canon(neg, r, IF sticky THEN e - 1 ELSE e))

\* Number(x) for a whole number x
FromNat(x) == Round(FALSE, x, 0, FALSE)

\* Number(n) for an integer n of the model
FromInteger(n) == Round(n < 0, FromInt(IF n < 0 THEN 0 - n ELSE n), 0, FALSE)

IsZero(a) == a[1] = "flt" /\ a[3] = <<>>

\* -a
FNeg(a) ==
  With(a, LAMBDA x :
    CASE x[1] = "nan" -> NaN
      [] x[1] = "inf" -> Inf(~x[2])
      [] x[1] = "flt" -> Flt(~x[2], x[3], x[4]))

\* the position above the highest set bit of a finite a # 0
TopBit(a) == BitLength(a[3]) + a[4]

\* |a| < |b| for finite a, b other than zero
MagLess(a, b) ==
  IF TopBit(a) # TopBit(b) THEN TopBit(a) < TopBit(b)
  ELSE IF a[4] >= b[4] THEN NatLess(ShiftLeft(a[3], a[4] - b[4]), b[3])
  ELSE NatLess(a[3], ShiftLeft(b[3], b[4] - a[4]))

\* a < b
FLess(a, b) ==
  With2(a, b, LAMBDA x, y :
    CASE x[1] = "nan" \/ y[1] = "nan" -> FALSE
      [] x[1] = "inf" /\ y[1] # "nan" -> x[2] /\ y # x
      [] x[1] = "flt" /\ y[1] = "inf" -> ~y[2]
      [] x[1] = "flt" /\ y[1] = "flt" ->
           IF IsZero(x) THEN ~IsZero(y) /\ ~y[2]
           ELSE IF IsZero(y) THEN x[2]
           ELSE IF x[2] # y[2] THEN x[2]
           ELSE IF x[2] THEN MagLess(y, x)
           ELSE MagLess(x, y))

\* a === b
FEq(a, b) ==
  With2(a, b, LAMBDA x, y :
    x[1] # "nan" /\ y[1] # "nan" /\ (x = y \/ (IsZero(x) /\ IsZero(y))))

\* a <= b
FLeq(a, b) == With2(a, b, LAMBDA x, y : FLess(x, y) \/ FEq(x, y))

\* a + b for finite a, b other than zero
AddFinite(a, b) ==
  IF TopBit(a) - TopBit(b) > 60 THEN a
  ELSE IF TopBit(b) - TopBit(a) > 60 THEN b
  ELSE LET e == IF a[4] < b[4] THEN a[4] ELSE b[4]
       IN  With2(ShiftLeft(a[3], a[4] - e), ShiftLeft(b[3], b[4] - e), LAMBDA x, y :
             With(IF a[2] = b[2] THEN <<a[2], NatAdd(x, y)>>
                  ELSE IF NatLess(x, y) THEN <<b[2], NatSub(y, x)>>
                  ELSE <<a[2], NatSub(x, y)>>, LAMBDA s :
               IF s[2] = <<>> THEN Zero(FALSE) ELSE Round(s[1], s[2], e, FALSE)))

\* a + b
FAdd(a, b) ==
  With2(a, b, LAMBDA x, y :
    CASE x[1] = "nan" \/ y[1] = "nan" -> NaN
      [] x[1] = "inf" /\ y[1] = "inf" -> IF x[2] = y[2] THEN x ELSE NaN
      [] x[1] = "inf" /\ y[1] = "flt" -> x
      [] x[1] = "flt" /\ y[1] = "inf" -> y
      [] x[1] = "flt" /\ y[1] = "flt" ->
           IF IsZero(x) /\ IsZero(y) THEN Zero(x[2] /\ y[2])
           ELSE IF IsZero(x) THEN y
           ELSE IF IsZero(y) THEN x
           ELSE AddFinite(x, y))

\* a - b
FSub(a, b) == FAdd(a, FNeg(b))

\* a * b
FMul(a, b) ==
  With2(a, b, LAMBDA x, y :
    CASE x[1] = "nan" \/ y[1] = "nan" -> NaN
      [] x[1] = "inf" /\ y[1] # "nan" -> IF IsZero(y) THEN NaN ELSE Inf(x[2] # y[2])
      [] x[1] = "flt" /\ y[1] = "inf" -> IF IsZero(x) THEN NaN ELSE Inf(x[2] # y[2])
      [] x[1] = "flt" /\ y[1] = "flt" ->
           Round(x[2] # y[2], NatMul(x[3], y[3]), x[4] + y[4], FALSE))

\* the remainder of the digits of x from digit i up, divided by d, given the
\* remainder r of the digits above digit j; d is at most 2^17, so that a
\* remainder times Base fits the integers of TLC
RECURSIVE RemTo(_, _, _, _, _)
RemTo(x, d, i, j, r) ==
  IF j < i \/ r < 0 THEN r ELSE RemTo(x, d, i, j - 1, (r * Base + x[j]) % d)

RemFrom(x, d, i) == RemTo(x, d, i, Len(x), 0)

\* x \div d
NatDivSmall(x, d) ==
  With([i \in 1..Len(x) |-> (RemFrom(x, d, i + 1) * Base + x[i]) \div d] \o <<>>, Norm)

\* the divisors of the model as products of two factors of at most 2^17:
\* 2^32 - 1 = 65535 * 65537, and a number below 2^17 times 1
SmallFactors(d) ==
  IF d = SEED_MAX THEN <<65535, 65537>> ELSE <<Digit(d, 1) + Digit(d, 2) * Base, 1>>

\* a / b for finite a, b other than zero: the quotient of the significands
\* to at least 56 bits, by dividing by the factors of the divisor in turn,
\* and whether bits were lost below them
DivFinite(a, b) ==
  LET k == IF 56 + BitLength(b[3]) < BitLength(a[3]) THEN 0
           ELSE 56 + BitLength(b[3]) - BitLength(a[3])
      f == SmallFactors(b[3])
  IN  With(ShiftLeft(a[3], k), LAMBDA x :
        With(NatDivSmall(x, f[1]), LAMBDA q1 :
          With(NatDivSmall(q1, f[2]), LAMBDA q2 :
            Round(a[2] # b[2], q2, a[4] - b[4] - k,
                  RemFrom(x, f[1], 1) # 0 \/ RemFrom(q1, f[2], 1) # 0))))

\* a / b
FDiv(a, b) ==
  With2(a, b, LAMBDA x, y :
    CASE x[1] = "nan" \/ y[1] = "nan" -> NaN
      [] x[1] = "inf" /\ y[1] = "inf" -> NaN
      [] x[1] = "inf" /\ y[1] = "flt" -> Inf(x[2] # y[2])
      [] x[1] = "flt" /\ y[1] = "inf" -> Zero(x[2] # y[2])
      [] x[1] = "flt" /\ y[1] = "flt" ->
           IF IsZero(y) THEN (IF IsZero(x) THEN NaN ELSE Inf(x[2] # y[2]))
           ELSE IF IsZero(x) THEN Zero(x[2] # y[2])
           ELSE DivFinite(x, y))

\* Math.floor(a)
FFloor(a) ==
  With(a, LAMBDA x :
    IF x[1] # "flt" \/ x[4] >= 0 THEN x
    ELSE With(ShiftRight(x[3], 0 - x[4]), LAMBDA q :
           Round(x[2], IF x[2] THEN NatAdd(q, <<1>>) ELSE q, 0, FALSE)))

(***************************************************************************)
(* Values a generator produces.  Every value is a tuple whose first        *)
(* component names its shape.                                              *)
(***************************************************************************)
Num(n) == <<"num", n>>         \* a whole number
Ref(r) == <<"ref", r>>         \* a State object, by identity
Arr(a) == <<"arr", a>>         \* an array
Fn(f) == <<"fn", f>>           \* a function value
Throw(m) == <<"throw", m>>     \* a thrown Error
Obj(o) == <<"obj", o>>         \* an object literal, a record of its properties
Undefined == <<"undefined">>   \* an option the caller left out
Bool(b) == <<"bool", b>>       \* true or false

(***************************************************************************)
(* State objects ({ seed, lcg }, src/gen/class.ts:6-16) live in a heap: a  *)
(* sequence of records addressed by position, so that an object mutated in *)
(* place and a freshly created object are different things.                *)
(***************************************************************************)
State(seed, l) == [seed |-> seed, lcg |-> l]

Alloc(h, s) == [heap |-> Append(h, s), state |-> Len(h) + 1]

(***************************************************************************)
(* The arithmetic of the functions a generator applies to its values.     *)
(* CallFn, defined below with the functions callers hand to the            *)
(* combinators, applies x => x + k, x => x - k, x => x * k, x => x / k,    *)
(* x => x <= k, x => x < k, Math.floor and Number; the functions of sized, *)
(* uniform, positive and the scalers compute with these.  CallFn also      *)
(* applies the constructors, which are defined after it.                   *)
(***************************************************************************)
RECURSIVE CallFn(_, _)
RECURSIVE sized(_, _)
RECURSIVE sizedDefault(_, _)
RECURSIVE uniform(_)
RECURSIVE positive(_)
RECURSIVE negative(_)
RECURSIVE integer(_)
RECURSIVE constants(_)
RECURSIVE spliced(_, _)

Plus(a, b) == With2(a, b, LAMBDA x, y : CallFn(<<"plus", y>>, x))
Minus(a, b) == With2(a, b, LAMBDA x, y : CallFn(<<"minus", y>>, x))
Times(a, b) == With2(a, b, LAMBDA x, y : CallFn(<<"times", y>>, x))
Over(a, b) == With2(a, b, LAMBDA x, y : CallFn(<<"over", y>>, x))
AtMost(a, b) == With2(a, b, LAMBDA x, y : CallFn(<<"atMost", y>>, x))
Floor(a) == With(a, LAMBDA x : CallFn(<<"floor">>, x))
Number(n) == With(n, LAMBDA x : CallFn(<<"number">>, x))
\* a < b, the comparisons of the validations
Less(a, b) == With2(a, b, LAMBDA x, y : CallFn(<<"less", y>>, x))

(***************************************************************************)
(* src/gen/sized.ts.  Weights, their partial sums and the decimal          *)
(* seed / (M_MODULUS - 1) are doubles.                                     *)
(***************************************************************************)
\* the double the literal p / q denotes, for a decimal fraction such as
\* 0.15 = 15 / 100: the double nearest to it
Dec(p, q) == FDiv(FromInteger(p), FromInteger(q))

One == Flt(FALSE, <<1>>, 0)

\* inputs.reduce((first, second) => first + second, initial)
RECURSIVE FSum(_, _)
FSum(inputs, initial) ==
  IF inputs = <<>> THEN initial
  ELSE FSum(Tail(inputs), Plus(initial, Head(inputs)))

\* src/gen/sized.ts:9-19
createDistribution(max) ==
  IF max = 0 THEN <<>>
  ELSE With(Over(One, Number(FromInt(max))), LAMBDA average :
         With([i \in 1..max |-> average], LAMBDA distribution :
           With(FSum(SubSeq(distribution, 1, max - 1), Zero(FALSE)), LAMBDA summish :
             With(Minus(One, summish), LAMBDA last :
               [distribution EXCEPT ![max] = last]))))

\* src/gen/sized.ts:21-30, with f the addition createValidators passes
RECURSIVE accumulate(_)
accumulate(inputs) ==
  IF inputs = <<>> THEN <<>>
  ELSE With(accumulate(SubSeq(inputs, 1, Len(inputs) - 1)), LAMBDA front :
         IF front = <<>> THEN <<inputs[1]>>
         ELSE Append(front, Plus(front[Len(front)], inputs[Len(inputs)])))

\* validators between the weights themselves, without accumulate
createValidatorsOfWeights(distribution) ==
  [index \in 1..Len(distribution) |->
     [lower |-> IF index = 1 THEN Zero(FALSE) ELSE distribution[index - 1],
      upper |-> distribution[index]]]

\* src/gen/sized.ts:32-42: validator i accepts lower <= value <= upper
createValidators(distribution) ==
  With(accumulate(distribution), LAMBDA array :
    [index \in 1..Len(array) |->
       [lower |-> IF index = 1 THEN Zero(FALSE) ELSE array[index - 1],
        upper |-> array[index]]])

\* seed / (M_MODULUS - 1), src/gen/sized.ts:107
SizedDecimal(seed) == Over(Number(seed), Minus(Number(M_MODULUS), One))

\* src/gen/sized.ts:106-118, the function sized maps over seeded
SizedIndex(validators, seed) ==
  With(SizedDecimal(seed), LAMBDA decimal :
    With({i \in 1..Len(validators) :
            /\ AtMost(validators[i].lower, decimal)
            /\ AtMost(decimal, validators[i].upper)}, LAMBDA hits :
      IF hits = {}
      THEN Throw("Index should be greater than or equal to zero")
      ELSE Num(FromInt((CHOOSE i \in hits : \A j \in hits : i <= j) - 1))))

\* Math.floor((m / SEED_MAX) * max), src/gen/number/uniform.ts:29
UniformIndex(max, m) == Floor(Times(Over(Number(m), Number(SEED_MAX)), max))

\* Cache.get, src/gen/sized.ts:47-52; the store is a set of <<key, value>>
CacheGet(store, key, value) ==
  IF \E e \in store : e[1] = key
  THEN [store |-> store, value |-> (CHOOSE e \in store : e[1] = key)[2]]
  ELSE [store |-> store \cup {<<key, value>>}, value |-> value]

(***************************************************************************)
(* src/gen/util.ts.  A range is { min, max }; a scaler is applied to its   *)
(* value in the same step that creates it.                                 *)
(***************************************************************************)
Range(min, max) == [min |-> min, max |-> max]

\* a clamp that answers with the opposite end of the range
clampSwapped(number, range) ==
  IF AtMost(range.max, number) THEN range.min
  ELSE IF AtMost(number, range.min) THEN range.max
  ELSE number

\* src/gen/util.ts:3-5
clamp(number, range) ==
  IF AtMost(range.max, number) THEN range.max
  ELSE IF AtMost(number, range.min) THEN range.min
  ELSE number

\* createPositiveScaler(source, target)(value), src/gen/util.ts:16-23:
\* top * ((value - source.min) / bot) + target.min
createPositiveScaler(source, target, value) ==
  With(Minus(target.max, target.min), LAMBDA top :
    With(Minus(source.max, source.min), LAMBDA bot :
      With(Over(Minus(value, source.min), bot), LAMBDA part :
        Plus(Times(top, part), target.min))))

\* createScaler(source, target)(value), src/gen/util.ts:33-51
createScaler(source, target, value) ==
  LET upper == Range(clamp(target.min, Range(Zero(FALSE), target.max)),
                     clamp(target.max, Range(Zero(FALSE), target.max)))
      lower == Range(FNeg(clamp(target.min, Range(target.min, Zero(FALSE)))),
                     FNeg(clamp(target.max, Range(target.min, Zero(FALSE)))))
  IN  With(createPositiveScaler(source, upper, value), LAMBDA createPositive :
        With(createPositiveScaler(source, lower, value), LAMBDA createNegative :
          Minus(createPositive, createNegative)))

\* a mix that weighs the value with mix and the target with 1 - mix
biasByMixSwapped(value, target, mix) ==
  With(Times(value, mix), LAMBDA kept :
    Plus(kept, Times(target, Minus(One, mix))))

\* biasByMix(value, { target, mix }), src/gen/util.ts:53-58:
\* value * (1 - mix) + target * mix
biasByMix(value, target, mix) ==
  With(Times(value, Minus(One, mix)), LAMBDA kept :
    Plus(kept, Times(target, mix)))

\* createLinearScaler({ source, target })(x), src/gen/util.ts:60-67:
\* ((x - source.min) / bot) * top + target.min
createLinearScaler(source, target, x) ==
  With(Minus(target.max, target.min), LAMBDA top :
    With(Minus(source.max, source.min), LAMBDA bot :
      With(Over(Minus(x, source.min), bot), LAMBDA part :
        Plus(Times(part, top), target.min))))

\* Array.prototype.sort without a compare function, on distinct whole
\* numbers from 0 up: ascending in the order of their strings, String(n)
\* being the decimal digits of n
sort(array) ==
  LET RECURSIVE String(_)
      String(n) == IF n < 10 THEN <<n>> ELSE Append(String(n \div 10), n % 10)
      string(x) == String(IF IsZero(x) THEN 0 ELSE Digit(ShiftLeft(x[3], x[4]), 1))
      Before(a, b) ==
        \E i \in 1..Len(b) :
          /\ \A j \in 1..(i - 1) : j <= Len(a) /\ a[j] = b[j]
          /\ (i > Len(a) \/ a[i] < b[i])
  IN  [p \in 1..Len(array) |->
         CHOOSE x \in {array[i] : i \in 1..Len(array)} :
           Cardinality({i \in 1..Len(array) : Before(string(array[i]), string(x))})
             = p - 1]

\* a rounding that returns its argument
roundOmitted(x) == x

\* Math.round: the nearest whole number, the greater one of two equally
\* near, with the sign of x when the result is zero
round(x) ==
  IF x[1] # "flt" THEN x
  ELSE With(Floor(x), LAMBDA down :
         IF Less(Minus(x, down), Flt(FALSE, <<1>>, -1)) THEN down
         ELSE With(Plus(down, One), LAMBDA up :
                IF IsZero(up) /\ x[2] THEN Zero(TRUE) ELSE up))

(***************************************************************************)
(* The functions callers hand to the combinators.                          *)
(***************************************************************************)

\* the function positive maps over its object, src/gen/positive.ts:111-118
PositiveOf(target, bias, influence, o) ==
  With(Range(Zero(FALSE), Minus(Number(o.lcg.m), One)), LAMBDA source :
    With(createPositiveScaler(source, target, Number(o.seed)), LAMBDA unbiased :
      IF influence # Undefined
      THEN biasByMix(unbiased, IF bias = Undefined THEN Zero(FALSE) ELSE bias, o.mix)
      ELSE unbiased))

\* value functions for map and apply
CallFn(f, v) ==
  CASE f[1] = "plus" -> FAdd(v, f[2])                         \* x => x + k
    [] f[1] = "minus" -> CallFn(<<"plus", FNeg(f[2])>>, v)    \* x => x - k
    [] f[1] = "times" -> FMul(v, f[2])                        \* x => x * k
    [] f[1] = "over" -> FDiv(v, f[2])                         \* x => x / k
    [] f[1] = "atMost" -> FLeq(v, f[2])                       \* x => x <= k
    [] f[1] = "less" -> FLess(v, f[2])                        \* x => x < k
    [] f[1] = "floor" -> FFloor(v)                            \* Math.floor
    [] f[1] = "number" -> FromNat(v)                          \* Number
    [] f[1] = "negate" -> FNeg(v)                             \* x => -x
    [] f[1] = "identity" -> v                                 \* x => x
    [] f[1] = "doubler" -> Num(ToDouble(NatMul(v[2], <<2>>))) \* n => n * 2
    [] f[1] = "pair" -> Fn(<<"pairWith", v>>)                 \* x => y => [x, y]
    [] f[1] = "pairWith" -> Arr(<<f[2], v>>)                  \* y => [x, y]
    [] f[1] = "sizedIndex" -> SizedIndex(f[2], v[2])
    [] f[1] = "uniformIndex" -> UniformIndex(f[2], v[2])
    [] f[1] = "positiveOf" -> PositiveOf(f[2], f[3], f[4], v[2])
    [] f[1] = "createPositiveScaler" -> createPositiveScaler(f[2], f[3], v)
    [] f[1] = "createScaler" -> createScaler(f[2], f[3], v)
    [] f[1] = "createLinearScaler" -> createLinearScaler(f[2], f[3], v)
    [] f[1] = "clamp" -> clamp(v, f[2])                       \* x => clamp(x, range)
    \* ([top, bot]) => clamp(top - bot, { min, max }), src/gen/number/integer.ts:100
    [] f[1] = "clampDifference" -> clamp(Minus(v[2][1], v[2][2]), f[2])
    \* the function createBias maps over decimal, src/gen/number/integer.ts:57-61
    [] f[1] = "bias" ->
         IF Less(v, Over(One, Number(<<3>>))) THEN f[2]
         ELSE Plus(Times(Minus(One, f[3].influence), Minus(f[2], f[3].target)),
                   f[3].target)
    \* (index) => values[index] of constants, src/unnamed/part_013:25
    [] f[1] = "valueAt" ->
         With({i \in 1..Len(f[2]) : v = Number(FromInt(i - 1))}, LAMBDA hits :
           IF hits = {} THEN Undefined ELSE f[2][CHOOSE i \in hits : TRUE])
    \* (indicies) => indicies.sort().map((index) => values[index]!) of spliced,
    \* src/gen/positive.ts:161
    [] f[1] = "sortedValues" ->
         IF v[1] # "arr" THEN v
         ELSE With(sort(v[2]), LAMBDA sorted :
                Arr([i \in 1..Len(sorted) |-> CallFn(<<"valueAt", f[2]>>, sorted[i])]))
    \* the function number maps over its state, src/gen/index.ts:1223-1228
    [] f[1] = "numberOf" ->
         round(createScaler(Range(Zero(FALSE), Minus(Number(v[2].lcg.m), One)),
                            f[2], Number(v[2].seed)))
    \* the constructors, which compute with their arguments when they are
    \* called: v is the expression the caller wrote and the store of the
    \* cache; spliced is given its distribution in hundredths
    [] f[1] = "new" ->
         (CASE f[2] = "sized" -> sizedDefault(v[1][2], v[2])
           [] f[2] = "sizedWith" -> sized(v[1][2], v[1][3])
           [] f[2] = "uniform" -> uniform(FromInteger(v[1][2]))
           [] f[2] = "positive" -> positive(v[1][2])
           [] f[2] = "negative" -> negative(v[1][2])
           [] f[2] = "integer" -> integer(v[1][2])
           [] f[2] = "constants" -> constants(v[1][2])
           [] f[2] = "spliced" ->
                spliced(v[1][2][1],
                        Over(Number(FromInt(v[1][2][2])), Number(FromInt(100)))))
    \* ({ seed, lcg }) => seed / (lcg.m - 1) of decimal, src/gen/index.ts:1030
    [] f[1] = "decimalOf" -> Over(Number(v[2].seed), Minus(Number(v[2].lcg.m), One))

\* value functions for map that read the properties of a State object, h
\* being the heap at the moment of the call: decimal destructures the
\* object it is given, and doApply copies it,
\* (b) => Object.assign({}, a, { [property]: b }), src/gen/class.ts:314-316
CallFnIn(f, v, h) ==
  CASE f[1] = "assign" ->
         Obj([p \in DOMAIN h[f[2][2]] \cup {f[3]} |->
                IF p = f[3] THEN v ELSE h[f[2][2]][p]])
    [] OTHER -> CallFn(f, IF f[1] \in {"decimalOf", "numberOf"} THEN Obj(h[v[2]]) ELSE v)

\* predicates for filter, on numbers
CallPredicate(p, v) ==
  CASE p[1] = "always" -> TRUE                                \* () => true
    [] p[1] = "never" -> FALSE                                \* () => false
    [] p[1] = "even" -> Digit(v[2], 1) % 2 = 0                \* n => n % 2 === 0
    [] p[1] = "mod4" -> Digit(v[2], 1) % 4 = p[2]             \* n => n % 4 === k

\* a state function of increment() that assigns the seed of the object it
\* was given
IncrementStateInPlace(h, r) ==
  [heap |-> [h EXCEPT ![r].seed = LcgIncrement(h[r].lcg, h[r].seed)], state |-> r]

\* the state function of increment(), src/gen/class.ts:56:
\* ({ lcg, seed }) => ({ lcg, seed: lcg.increment(seed) }) builds a new object
IncrementState(h, r) ==
  Alloc(h, State(LcgIncrement(h[r].lcg, h[r].seed), h[r].lcg))

\* state functions for modify
CallStateFn(f, h, r) ==
  CASE f[1] = "increment" -> IncrementState(h, r)
    [] f[1] = "same" -> [heap |-> h, state |-> r]             \* state => state
    [] f[1] = "reseed" -> Alloc(h, State(f[2], h[r].lcg))     \* ({ lcg }) => ({ lcg, seed: k })

(***************************************************************************)
(* Generators are terms: <<"of", v>>, <<"seedOf">>, <<"stateOf">>,         *)
(* <<"modify", g, f>>, <<"map", g, f>>, <<"apply", g, ga>>,                *)
(* <<"chain", g, k>> and <<"filter", g, p>>.  Stateful(g, h, r) is         *)
(* g.stateful(state) for the state object r of heap h; it yields the       *)
(* value, the heap after the call and the state object returned.           *)
(***************************************************************************)
RECURSIVE Stateful(_, _, _)
RECURSIVE CallKleisli(_, _)
RECURSIVE GenTuple(_, _, _, _)
RECURSIVE GenTupleSameState(_, _, _, _)
RECURSIVE GenIndicies(_, _, _, _)

Outcome(v, h, r) == [value |-> v, heap |-> h, state |-> r]

\* of(value), src/gen/index.ts:615-617
Of(v) == <<"of", v>>

\* modify that applies f to the incoming state and runs the generator after
GenModifyBeforeRun(g, f, h, r) ==
  With(CallStateFn(f, h, r), LAMBDA m :
    With(Stateful(g, m.heap, m.state), LAMBDA d :
      Outcome(d.value, d.heap, d.state)))

\* Gen.modify, src/gen/class.ts:44-49
GenModify(g, f, h, r) ==
  With(Stateful(g, h, r), LAMBDA d :
    With(CallStateFn(f, d.heap, d.state), LAMBDA m :
      Outcome(d.value, m.heap, m.state)))

\* Gen.increment, src/gen/class.ts:55-57
Increment(g) == <<"modify", g, <<"increment">>>>

\* map that returns the state it was given
GenMapKeepsState(g, f, h, r) ==
  With(Stateful(g, h, r), LAMBDA d : Outcome(CallFnIn(f, d.value, d.heap), d.heap, r))

\* Gen.map, src/gen/class.ts:77-83
GenMap(g, f, h, r) ==
  With(Stateful(g, h, r), LAMBDA d :
    Outcome(CallFnIn(f, d.value, d.heap), d.heap, d.state))

\* apply that runs the argument generator first
GenApplyArgumentFirst(g, ga, h, r) ==
  With(Stateful(ga, h, r), LAMBDA d2 :
    With(Stateful(g, d2.heap, d2.state), LAMBDA d1 :
      Outcome(CallFn(d1.value[2], d2.value), d1.heap, d1.state)))

\* Gen.apply, src/gen/class.ts:128-135
GenApply(g, ga, h, r) ==
  With(Stateful(g, h, r), LAMBDA d1 :
    With(Stateful(ga, d1.heap, d1.state), LAMBDA d2 :
      Outcome(CallFn(d1.value[2], d2.value), d2.heap, d2.state)))

\* chain that runs the generator f returns on the state chain was given
GenChainOnGivenState(g, k, h, r) ==
  With(Stateful(g, h, r), LAMBDA d1 : Stateful(CallKleisli(k, d1.value), d1.heap, r))

\* Gen.chain, src/gen/class.ts:207-212
GenChain(g, k, h, r) ==
  With(Stateful(g, h, r), LAMBDA d1 :
    Stateful(CallKleisli(k, d1.value), d1.heap, d1.state))

\* the passes of the loops of indicies a call may make in the model
MaxIndexDraws == 24

\* indicies(size) of spliced, src/gen/positive.ts:144-157: the while loop
\* around the while loop of indice.filter, src/gen/class.ts:342-345.  s is
\* the array result, the heap and the state before a pass; a pass draws an
\* index on that state and pushes it unless result includes it, and leaves
\* s alone once result.length < size fails.  GenIndicies is s after up to
\* passes passes, the first half of them run before the second.
GenIndicies(indice, size, s, passes) ==
  IF passes > 1
  THEN With(GenIndicies(indice, size, s, passes \div 2), LAMBDA half :
         GenIndicies(indice, size, half, passes - passes \div 2))
  ELSE IF ~FLess(FromNat(FromInt(Len(s.value))), size) THEN s
  ELSE With(Stateful(indice, s.heap, s.state), LAMBDA d :
         Outcome(IF \E i \in 1..Len(s.value) : s.value[i] = d.value THEN s.value
                 ELSE Append(s.value, d.value),
                 d.heap, d.state))

\* a loop that runs every generator on the state the tuple was given
GenTupleSameState(gens, h, r, result) ==
  IF gens = <<>> THEN Outcome(Arr(result), h, r)
  ELSE With(Stateful(Head(gens), h, r), LAMBDA d :
         GenTupleSameState(Tail(gens), d.heap, r, Append(result, d.value)))

\* the for loop of tuple, src/gen/tuple.ts:25-35: every generator runs on
\* the state the one before returned
GenTuple(gens, h, r, result) ==
  IF gens = <<>> THEN Outcome(Arr(result), h, r)
  ELSE With(Stateful(Head(gens), h, r), LAMBDA d :
         GenTuple(Tail(gens), d.heap, d.state, Append(result, d.value)))

Stateful(g, h, r) ==
  CASE g[1] = "of" -> Outcome(g[2], h, r)
    [] g[1] = "seedOf" -> Outcome(Num(h[r].seed), h, r)  \* state => [state.seed, state]
    [] g[1] = "stateOf" -> Outcome(Ref(r), h, r)         \* state => [state, state]
    [] g[1] = "modify" -> GenModify(g[2], g[3], h, r)
    [] g[1] = "map" -> GenMap(g[2], g[3], h, r)
    [] g[1] = "apply" -> GenApply(g[2], g[3], h, r)
    [] g[1] = "chain" -> GenChain(g[2], g[3], h, r)
    [] g[1] = "tuple" -> GenTuple(g[2], h, r, <<>>)
    \* a call the model cuts off at MaxIndexDraws passes returns no array
    [] g[1] = "indicies" ->
         With(GenIndicies(g[2], g[3], Outcome(<<>>, h, r), MaxIndexDraws), LAMBDA s :
           Outcome(IF ~FLess(FromNat(FromInt(Len(s.value))), g[3]) THEN Arr(s.value)
                   ELSE <<"none">>,
                   s.heap, s.state))
    \* vector(gen, size), src/gen/index.ts:492-502, is the loop of tuple over
    \* size entries of one generator
    [] g[1] = "vector" -> GenTuple([i \in 1..g[3] |-> g[2]], h, r, <<>>)

\* src/gen/index.ts:456
seeded == Increment(<<"seedOf">>)

\* src/gen/index.ts:474
stated == Increment(<<"stateOf">>)

\* functions from a value to a generator, for chain
CallKleisli(k, v) ==
  CASE k[1] = "of" -> Of(v)                               \* x => of(x)
    [] k[1] = "seeded" -> seeded                          \* () => seeded
    [] k[1] = "pairSeeded" -> <<"map", seeded, <<"pairWith", v>>>>  \* x => seeded.map(y => [x, y])
    [] k[1] = "assignFrom" -> <<"map", k[3], <<"assign", v, k[2]>>>>  \* a => gen.map(b => Object.assign({}, a, { [property]: b }))
    \* (index) => gens[index] of union, src/gen/union.ts:37; the call of
    \* stateful on undefined is a TypeError
    [] k[1] = "genAt" ->
         IF v[1] = "num" /\ NatLess(v[2], FromInt(Len(k[2])))
         THEN k[2][Digit(v[2], 1) + 1]
         ELSE Of(Throw("Cannot read properties of undefined (reading 'stateful')"))
    \* (size) => new Gen(...) of spliced, src/gen/positive.ts:144
    [] k[1] = "indicies" -> <<"indicies", k[2], v>>
    \* createBias(options), src/gen/number/integer.ts:55-62:
    \* (number) => decimal.map((decimal) => ...)
    [] k[1] = "createBias" ->
         <<"map", <<"map", stated, <<"decimalOf">>>>, <<"bias", v, k[2]>>>>

\* sized that rejects a sum above 1 only
sizedSumAtMostOne(max, distribution) ==
  IF max < 1
  THEN Throw("Sized generator must have a max number greater than 1.")
  ELSE IF Len(distribution) # max
  THEN Throw("The number of elements in a distribution must be equal to the length of the max value")
  ELSE IF Less(One, FSum(Tail(distribution), Head(distribution)))
  THEN Throw("The sum of a distribution should be equal to 1")
  ELSE <<"map", seeded, <<"sizedIndex", createValidators(distribution)>>>>

\* sized(max, distribution), src/gen/sized.ts:80-119
sized(max, distribution) ==
  IF max < 1
  THEN Throw("Sized generator must have a max number greater than 1.")
  ELSE IF Len(distribution) # max
  THEN Throw("The number of elements in a distribution must be equal to the length of the max value")
  ELSE IF ~FEq(FSum(Tail(distribution), Head(distribution)), One)
  THEN Throw("The sum of a distribution should be equal to 1")
  ELSE <<"map", seeded, <<"sizedIndex", createValidators(distribution)>>>>

\* uniform(max), src/gen/number/uniform.ts:24-30
uniform(max) ==
  IF Less(max, One)
  THEN Throw("Sized generator must have a max number greater than 1.")
  ELSE <<"map", seeded, <<"uniformIndex", max>>>>

\* src/gen/index.ts:1030
decimal == <<"map", stated, <<"decimalOf">>>>

\* Gen.doApply, src/gen/class.ts:310-317
doApply(g, property, ga) == <<"chain", g, <<"assignFrom", property, ga>>>>

\* the options of positive and negative: a record of min, max, bias,
\* influence and unchecked, each a double (unchecked a Bool) or Undefined
Options(min, max, bias, influence, unchecked) ==
  [min |-> min, max |-> max, bias |-> bias, influence |-> influence,
   unchecked |-> unchecked]

\* the default of a destructured property
Default(x, d) == IF x = Undefined THEN d ELSE x

Verified(options) == <<"verified", options>>

\* verifyPositiveArguments without the check that influence comes with a bias
verifyPositiveArgumentsLoneInfluence(options) ==
  LET min == Default(options.min, Zero(FALSE))
      max == Default(options.max, Number(Pow2(32)))
      unchecked == Default(options.unchecked, Bool(FALSE))[2]
      bias == options.bias
      influence == options.influence
  IN  IF unchecked THEN Verified(Options(min, max, bias, influence, Bool(unchecked)))
      ELSE IF Less(min, Zero(FALSE)) THEN Throw("Minimum value should not be less than 0")
      ELSE IF Less(max, Zero(FALSE)) THEN Throw("Maximum value should not be less than 0")
      ELSE IF Less(max, min)
      THEN Throw("Maximum value should be equal to or greater than the minimum value")
      ELSE IF bias # Undefined /\ Less(bias, min)
      THEN Throw("Bias should not be less than the minimum value")
      ELSE IF bias # Undefined /\ Less(max, bias)
      THEN Throw("Bias should not be greater than the maximum value")
      ELSE IF bias # Undefined /\ influence = Undefined
      THEN Throw("Influence should not be defined when the bias is not defined")
      ELSE IF influence # Undefined /\ Less(influence, Zero(FALSE))
      THEN Throw("Influence should not be less than 0")
      ELSE IF influence # Undefined /\ Less(One, influence)
      THEN Throw("Influence should not be greater that 1")
      ELSE Verified(Options(min, max, bias, influence, Bool(unchecked)))

\* verifyPositiveArguments, src/gen/positive.ts:43-100
verifyPositiveArguments(options) ==
  LET min == Default(options.min, Zero(FALSE))
      max == Default(options.max, Number(Pow2(32)))
      unchecked == Default(options.unchecked, Bool(FALSE))[2]
      bias == options.bias
      influence == options.influence
  IN  IF unchecked THEN Verified(Options(min, max, bias, influence, Bool(unchecked)))
      ELSE IF Less(min, Zero(FALSE)) THEN Throw("Minimum value should not be less than 0")
      ELSE IF Less(max, Zero(FALSE)) THEN Throw("Maximum value should not be less than 0")
      ELSE IF Less(max, min)
      THEN Throw("Maximum value should be equal to or greater than the minimum value")
      ELSE IF bias # Undefined /\ Less(bias, min)
      THEN Throw("Bias should not be less than the minimum value")
      ELSE IF bias # Undefined /\ Less(max, bias)
      THEN Throw("Bias should not be greater than the maximum value")
      ELSE IF bias # Undefined /\ influence = Undefined
      THEN Throw("Influence should not be defined when the bias is not defined")
      ELSE IF influence # Undefined /\ Less(influence, Zero(FALSE))
      THEN Throw("Influence should not be less than 0")
      ELSE IF influence # Undefined /\ Less(One, influence)
      THEN Throw("Influence should not be greater that 1")
      ELSE IF influence # Undefined /\ bias = Undefined
      THEN Throw("Bias should not be defined when the influence is not defined")
      ELSE Verified(Options(min, max, bias, influence, Bool(unchecked)))

\* positive(options), src/gen/positive.ts:102-119
positive(options) ==
  With(verifyPositiveArguments(options), LAMBDA v :
    IF v[1] = "throw" THEN v
    ELSE <<"map",
           doApply(stated, "mix",
                   <<"map", decimal, <<"times", Default(v[2].influence, One)>>>>),
           <<"positiveOf", Range(v[2].min, v[2].max), v[2].bias, v[2].influence>>>>)

\* negative(options), src/unnamed/part_012:5-37
negative(options) ==
  LET min == Default(options.min, FNeg(Number(Pow2(32))))
      max == Default(options.max, Zero(FALSE))
      bias == Default(options.bias, Zero(TRUE))
      influence == Default(options.influence, Zero(FALSE))
      unchecked == Default(options.unchecked, Bool(FALSE))[2]
      p == positive(Options(max, FNeg(min), FNeg(bias), influence, Bool(unchecked)))
  IN  IF ~unchecked /\ Less(Zero(FALSE), min)
      THEN Throw("Minimum value should not be greater than 0")
      ELSE IF ~unchecked /\ Less(Zero(FALSE), max)
      THEN Throw("Maximum value should not be greater than 0")
      ELSE IF ~unchecked /\ Less(max, min)
      THEN Throw("Minimum value should be equal to or less than the maximum value")
      ELSE IF ~unchecked /\ Less(bias, Zero(FALSE))
      THEN Throw("Bias should not be less than 0")
      ELSE IF ~unchecked /\ Less(One, bias)
      THEN Throw("Bias should not be greater that 1")
      ELSE IF ~unchecked /\ Less(influence, Zero(FALSE))
      THEN Throw("Influence should not be less than 0")
      ELSE IF ~unchecked /\ Less(One, influence)
      THEN Throw("Influence should not be greater that 1")
      ELSE With(p, LAMBDA g : IF g[1] = "throw" THEN g ELSE <<"map", g, <<"negate">>>>)

\* positive(range) of src/gen/number/integer.ts:14-25
integerPositive(range) ==
  With(Minus(range.max, range.min), LAMBDA diff :
    IF Less(diff, Zero(FALSE))
    THEN Throw("calculated difference should be greater than 0")
    ELSE IF FEq(diff, Zero(FALSE)) THEN Of(range.min)
    ELSE With(uniform(diff), LAMBDA u :
           IF u[1] = "throw" THEN u ELSE <<"map", u, <<"plus", range.min>>>>))

\* an integer whose influence is 1 when the caller gives none
integerInfluenceOne(options) ==
  With2(Default(options.min, FNeg(Number(Pow2(32)))),
        Default(options.max, Number(Pow2(32))), LAMBDA min, max :
    LET SEED_RANGE == Range(Zero(FALSE), Number(SEED_MAX))
        target == Default(options.target, Over(Minus(max, min), Number(<<2>>)))
        influence == Default(options.influence, One)
    IN  With2(integerPositive(Range(clamp(min, SEED_RANGE), clamp(max, SEED_RANGE))),
              integerPositive(Range(clamp(FNeg(max), SEED_RANGE),
                                    clamp(FNeg(min), SEED_RANGE))), LAMBDA top, bot :
          IF top[1] = "throw" THEN top
          ELSE IF bot[1] = "throw" THEN bot
          ELSE <<"chain",
                 <<"map", <<"tuple", <<top, bot>>>>,
                   <<"clampDifference", Range(min, max)>>>>,
                 <<"createBias", [target |-> target, influence |-> influence]>>>>))

\* integer(options), src/gen/number/integer.ts:81-102
integer(options) ==
  With2(Default(options.min, FNeg(Number(Pow2(32)))),
        Default(options.max, Number(Pow2(32))), LAMBDA min, max :
    LET SEED_RANGE == Range(Zero(FALSE), Number(SEED_MAX))
        target == Default(options.target, Over(Minus(max, min), Number(<<2>>)))
        influence == Default(options.influence, Zero(FALSE))
    IN  With2(integerPositive(Range(clamp(min, SEED_RANGE), clamp(max, SEED_RANGE))),
              integerPositive(Range(clamp(FNeg(max), SEED_RANGE),
                                    clamp(FNeg(min), SEED_RANGE))), LAMBDA top, bot :
          IF top[1] = "throw" THEN top
          ELSE IF bot[1] = "throw" THEN bot
          ELSE <<"chain",
                 <<"map", <<"tuple", <<top, bot>>>>,
                   <<"clampDifference", Range(min, max)>>>>,
                 <<"createBias", [target |-> target, influence |-> influence]>>>>))

\* constants(values), src/unnamed/part_013:22-26
constants(values) ==
  With(uniform(Number(FromInt(Len(values)))), LAMBDA index :
    IF index[1] = "throw" THEN index ELSE <<"map", index, <<"valueAt", values>>>>)

\* union(gens, distribution), src/gen/union.ts:31-38, index being the
\* generator sized(gens.length, distribution) or the Error of that call
union(gens, index) ==
  IF index[1] = "throw" THEN index ELSE <<"chain", index, <<"genAt", gens>>>>

\* spliced(values, distribution), src/gen/positive.ts:131-162
spliced(values, distribution) ==
  With(Number(FromInt(Len(values))), LAMBDA length :
    With(Minus(length, Times(distribution, length)), LAMBDA kept :
      With2(Floor(kept), FNeg(Floor(FNeg(kept))), LAMBDA min, max :
        With2(integer([min |-> min, max |-> max,
                       target |-> Undefined, influence |-> Undefined]),
              integer([min |-> Zero(FALSE), max |-> max,
                       target |-> Undefined, influence |-> Undefined]),
              LAMBDA size, indice :
          IF size[1] = "throw" THEN size
          ELSE IF indice[1] = "throw" THEN indice
          ELSE <<"map", <<"chain", size, <<"indicies", indice>>>>,
                 <<"sortedValues", values>>>>))))

\* number(options), src/gen/index.ts:1218-1229
number(options) ==
  <<"map", stated,
    <<"numberOf", Range(Default(options.min, FNeg(FromNat(Pow2(32)))),
                        Default(options.max, FromNat(Pow2(32))))>>>>

\* sized(max) that accumulates the cached array in place while it builds
\* its validators
sizedDefaultShared(max, store) ==
  LET c == CacheGet(store, max, createDistribution(max))
  IN  [gen |-> sized(max, c.value),
       store |-> {e \in c.store : e[1] # max} \cup {<<max, accumulate(c.value)>>}]

\* sized(max) with the default parameter, which goes through the cache
sizedDefault(max, store) ==
  With(CacheGet(store, max, createDistribution(max)), LAMBDA c :
    [gen |-> sized(max, c.value), store |-> c.store])

(***************************************************************************)
(* Evaluating the expression a caller writes.  An expression is a          *)
(* generator term that may contain <<"sized", max>>, the call sized(max);  *)
(* building it performs the sized calls from left to right against the     *)
(* cache and yields the generator object and the cache afterwards.         *)
(* <<"sizedWith", max, distribution>> is sized(max, distribution) and      *)
(* <<"uniform", max>> is uniform(max), <<"positive", options>> and         *)
(* <<"negative", options>> are positive(options) and negative(options),    *)
(* and likewise for integer, number, constants and union, whose            *)
(* distribution is Undefined when the caller omits it; a constructor that  *)
(* throws yields the Error in place of the generator.                      *)
(***************************************************************************)
RECURSIVE Build(_, _)
Build(e, store) ==
  CASE e[1] \in {"sized", "sizedWith", "uniform", "positive", "negative", "integer",
                  "constants", "spliced"} ->
         With(CallFn(<<"new", e[1]>>, <<e, store>>), LAMBDA made :
           IF e[1] = "sized" THEN made ELSE [gen |-> made, store |-> store])
    [] e[1] = "number" -> [gen |-> number(e[2]), store |-> store]
    [] e[1] = "union" ->
         With(Build(IF e[3] = Undefined THEN <<"sized", Len(e[2])>>
                    ELSE <<"sizedWith", Len(e[2]), e[3]>>, store), LAMBDA b :
           [gen |-> union(e[2], b.gen), store |-> b.store])
    [] e[1] \in {"modify", "map", "chain", "filter"} ->
         LET b == Build(e[2], store)
         IN  [gen |-> IF b.gen[1] = "throw" THEN b.gen ELSE <<e[1], b.gen, e[3]>>,
              store |-> b.store]
    [] e[1] = "apply" ->
         LET b1 == Build(e[2], store)
             b2 == Build(e[3], b1.store)
         IN  IF b1.gen[1] = "throw" THEN b1
             ELSE [gen |-> IF b2.gen[1] = "throw" THEN b2.gen
                           ELSE <<"apply", b1.gen, b2.gen>>,
                   store |-> b2.store]
    [] OTHER -> [gen |-> e, store |-> store]

\* a loop body that rebinds value1 only, so the next draw repeats the state
FilterBodySameState(g, p, h, r) ==
  With(Stateful(g, h, r), LAMBDA d :
    [accepted |-> CallPredicate(p, d.value),
     value |-> d.value, heap |-> d.heap, state |-> r])

\* a loop body that returns its first draw
FilterBodyAcceptsFirst(g, p, h, r) ==
  With(Stateful(g, h, r), LAMBDA d :
    [accepted |-> TRUE, value |-> d.value, heap |-> d.heap, state |-> d.state])

\* the body of the while loop of Gen.filter, src/gen/class.ts:343-344:
\* the draw rebinds both value1 and state1, then the predicate decides
FilterBody(g, p, h, r) ==
  With(Stateful(g, h, r), LAMBDA d :
    [accepted |-> CallPredicate(p, d.value),
     value |-> d.value, heap |-> d.heap, state |-> d.state])

(***************************************************************************)
(* Gen.range, src/gen/class.ts:369-377.  One pass through the body of its  *)
(* for loop calls this.stateful on the local state, pushes the value and   *)
(* rebinds the local state to the state the call returned.                 *)
(***************************************************************************)
DefaultSize == 10

\* a loop body that keeps the state it was given for the next call
RangeBodySameState(g, h, r, result) ==
  With(Stateful(g, h, r), LAMBDA d :
    [result |-> Append(result, d.value), heap |-> d.heap, state |-> r])

RangeBody(g, h, r, result) ==
  With(Stateful(g, h, r), LAMBDA d :
    [result |-> Append(result, d.value), heap |-> d.heap, state |-> d.state])

(***************************************************************************)
(* How a caller enters a generator: g.stateful(state), g.run(state),       *)
(* g.range({ state }) and g.range({ state, size }).                        *)
(***************************************************************************)
MaxSize == 2

Modes == {<<"stateful">>, <<"run">>, <<"range">>, <<"range", 0>>, <<"range", MaxSize>>}

\* the number of calls of this.stateful the entry makes
Calls(md) ==
  IF md[1] = "range" THEN (IF Len(md) = 1 THEN DefaultSize ELSE md[2]) ELSE 1

\* what the entry returns once its last call of this.stateful returned
\* value v and state r, the values of the earlier calls being in acc
Returned(md, acc, v, r) ==
  CASE md[1] = "stateful" -> Arr(<<v, Ref(r)>>)
    [] md[1] = "run" -> v                      \* Gen.run, src/gen/class.ts:36-38
    [] md[1] = "range" -> Arr(Append(acc, v))

(***************************************************************************)
(* The callers of the model.                                               *)
(***************************************************************************)
\* a second generator with 16 seeds, new Lcg(5, 3, 16)
smallLcg == Lcg(<<5>>, <<3>>, <<16>>)

CallerStates ==
  {State(s, lcg) : s \in {<<>>, FromInt(1357954837), SEED_MAX}}
    \cup {State(<<7>>, smallLcg)}

SizedMaxes == {2, 4}

Numbers == {Of(Num(<<8>>)), seeded, Increment(seeded)}

Predicates == {<<"never">>, <<"even">>, <<"mod4", 2>>}

\* the distributions of src/test/sized.spec.ts, one with a negative weight
\* and one with the weight 0
Hundredths(w) == [i \in 1..Len(w) |-> Dec(w[i], 100)]

Distributions ==
  {<<d[1], Hundredths(d[2])>> :
     d \in {<<0, <<>>>>,
            <<5, <<10, 15, 20, 25, 20, 10>>>>,
            <<5, <<10, 15, 20, 25, 20>>>>,
            <<5, <<10, 15, 20, 25, 30>>>>,
            <<3, <<10, 20, 70>>>>,
            <<2, <<10, 20, 70>>>>,
            <<2, <<150, -50>>>>,
            <<2, <<0, 100>>>>}}

UniformMaxes == {0, 1, 3}

\* the options object a caller writes as a record of the properties it
\* gives, the numbers in hundredths
Given(o, properties) ==
  [p \in properties |-> IF p \in DOMAIN o THEN Dec(o[p], 100) ELSE Undefined]

OptionsOf(o) ==
  With(Given(o, {"min", "max", "bias", "influence"}), LAMBDA n :
    Options(n.min, n.max, n.bias, n.influence,
            IF "unchecked" \in DOMAIN o THEN Bool(o.unchecked) ELSE Undefined))

NoOptions == Options(Undefined, Undefined, Undefined, Undefined, Undefined)

\* options of positive the validation accepts: the defaults, a range of one
\* point, ranges with and without a bias, and 0.3 to 0.9
ValidOptions ==
  {NoOptions}
    \cup {OptionsOf(o) :
            o \in {[min |-> 300, max |-> 300, bias |-> 300, influence |-> 100],
                   [min |-> 30, max |-> 90],
                   [min |-> 30, max |-> 90, bias |-> 90, influence |-> 0],
                   [min |-> 200, max |-> 1000, unchecked |-> FALSE],
                   [min |-> 200, max |-> 1000, bias |-> 500, influence |-> 0],
                   [min |-> 200, max |-> 1000, bias |-> 500, influence |-> 50]}}

\* options each of which breaks one rule of the validation
InvalidOptions ==
  {OptionsOf(o) :
     o \in {[min |-> -100],
            [max |-> -100],
            [min |-> 500, max |-> 200],
            [min |-> 200, max |-> 1000, bias |-> 500],
            [min |-> 200, max |-> 1000, influence |-> 50],
            [min |-> 200, max |-> 1000, bias |-> 100, influence |-> 50],
            [min |-> 200, max |-> 1000, bias |-> 1100, influence |-> 50],
            [min |-> 200, max |-> 1000, bias |-> 500, influence |-> -50],
            [min |-> 200, max |-> 1000, bias |-> 500, influence |-> 150]}}

\* a range of whole numbers
Whole(min, max) == Range(FromInteger(min), FromInteger(max))

\* the calls of(value).map(scaler) of the model, as <<scaler, source,
\* target, value>>: createScaler between equal ranges, into a range that
\* crosses zero and into one below zero, and the positive scalers, over
\* sources with and without width; the numbers are written in hundredths
ScalerCalls ==
  {With([i \in 1..5 |-> Dec(c[2][i], 100)], LAMBDA n :
     <<c[1], Range(n[1], n[2]), Range(n[3], n[4]), n[5]>>) :
     c \in ({"createScaler"} \X
              ({<<0, 2200, 0, 2200, x>> : x \in {0, 1100, 1500, 2200}}
                 \cup {<<0, 300, 0, 300, x>> : x \in {0, 100, 200, 300}}
                 \cup {<<0, 100, 0, 100, 50>>}
                 \cup {<<0, 1500, -500, 500, x>> : x \in {0, 1500}}
                 \cup {<<0, 1500, -500, -200, x>> : x \in {0, 1500}}))
          \cup ({"createPositiveScaler"} \X
                  ({<<0, 1500, 200, 1000, x>> : x \in {0, 700, 1500}}
                     \cup {<<500, 500, 200, 1000, 500>>}))
          \cup ({"createLinearScaler"} \X
                  {<<500, 500, 200, 1000, 500>>, <<0, 1500, 200, 1000, 700>>})}
    \cup {<<"createPositiveScaler", Range(Zero(FALSE), FromNat(SEED_MAX)),
             Range(Dec(3, 10), Dec(9, 10)), FromNat(x)>> : x \in {<<>>, SEED_MAX}}

\* the calls clamp(value, range) of the model, as <<range, value>>: values
\* below, at the ends of, inside and above a range, and a range of one point
ClampCalls ==
  {With([i \in 1..3 |-> FromInteger(c[i])], LAMBDA n : <<Range(n[1], n[2]), n[3]>>) :
     c \in {<<2, 5, x>> : x \in {0, 2, 3, 5, 7}}
            \cup {<<-2, -2, x>> : x \in {-3, -2, -1}}}

\* options of integer, and without influence of number: ranges from 0 up,
\* of one point, below and across 0, the default max, and ranges with an
\* influence, with and without a target
IntegerOptions ==
  {Given(o, {"min", "max", "target", "influence"}) :
     o \in {[min |-> 0, max |-> 300], [min |-> 200, max |-> 1000],
            [min |-> 500, max |-> 500], [min |-> 0],
            [min |-> -500, max |-> -200], [min |-> -500, max |-> 500],
            [min |-> -5700, max |-> 140000],
            [min |-> 0, max |-> 1000, target |-> 500, influence |-> 25],
            [min |-> 1000, max |-> 2000, influence |-> 100]}}

PositiveOptions ==
  ValidOptions \cup InvalidOptions
    \cup {[o EXCEPT !.unchecked = Bool(TRUE)] : o \in InvalidOptions}

NegativeOptions ==
  {NoOptions}
    \cup {OptionsOf(o) :
            o \in {[min |-> -500, max |-> 0],
                   [min |-> -500, max |-> -200],
                   [min |-> -500, max |-> -200, unchecked |-> TRUE],
                   [min |-> -200, max |-> -500]}}

Exprs ==
  Numbers
    \cup {<<"sizedWith", d[1], d[2]>> : d \in Distributions}
    \cup {<<"uniform", k>> : k \in UniformMaxes}
    \cup {<<"positive", o>> : o \in PositiveOptions}
    \cup {<<"negative", o>> : o \in NegativeOptions}
    \cup {<<"integer", o>> : o \in IntegerOptions}
    \cup {<<"constants", <<Num(<<8>>), Num(<<9>>), Num(<<10>>)>>>>}
    \cup {<<"vector", seeded, DefaultSize>>}
    \cup {<<"spliced", <<[i \in 1..c[1] |-> Num(<<i>>)], c[2]>>>> :
            c \in {<<6, 50>>, <<12, 10>>}}
    \cup {<<"union", <<Of(Num(<<8>>)), seeded>>, d>> :
            d \in {Undefined} \cup {c[2] : c \in {x \in Distributions : x[1] = 2}}}
    \cup {<<"number", o>> : o \in {x \in IntegerOptions : x.influence = Undefined}}
    \cup {<<"map", Of(c[4]), <<c[1], c[2], c[3]>>>> : c \in ScalerCalls}
    \cup {<<"map", Of(c[2]), <<"clamp", c[1]>>>> : c \in ClampCalls}
    \cup {stated}
    \cup {<<"sized", k>> : k \in SizedMaxes}
    \cup {<<"modify", g, f>> : g \in {Of(Num(<<8>>)), seeded},
                               f \in {<<"same">>, <<"reseed", <<3>>>>}}
    \cup {<<"map", g, f>> : g \in Numbers \cup {<<"sized", 4>>},
                            f \in {<<"identity">>, <<"doubler">>}}
    \cup {<<"map", stated, <<"identity">>>>}
    \cup {<<"apply", <<"map", g, <<"pair">>>>, ga>> :
            g \in {Of(Num(<<8>>)), seeded}, ga \in {Of(Num(<<8>>)), seeded}}
    \cup {<<"apply", <<"map", <<"sized", 2>>, <<"pair">>>>, <<"sized", 4>>>>}
    \cup {<<"chain", g, k>> : g \in {Of(Num(<<8>>)), seeded},
                              k \in {<<"of">>, <<"seeded">>, <<"pairSeeded">>}}
    \cup {<<"filter", g, p>> : g \in Numbers, p \in Predicates}
    \cup {<<"filter", seeded, <<"always">>>>}

(***************************************************************************)
(* The state of a session: the module-level cache of sized, and one call   *)
(* in progress or completed.                                               *)
(***************************************************************************)
VARIABLES
  cache,    \* the store of the module-level Cache, src/gen/sized.ts:59
  heap,     \* the State objects of the call; the caller's object is heap[1]
  pc,       \* "idle", "range" (inside the for of range), "loop" (inside the
            \* while of filter) or "done"
  expr,     \* the expression the caller evaluated
  gen,      \* the generator it built
  saved,    \* the caller's State as it was when the call began
  mode,     \* the entry the caller used
  cur,      \* the local state of range and state1 of filter
  todo,     \* the calls of this.stateful the entry still has to make
  acc,      \* the values range has pushed
  draws,    \* the iterations of the while loop in the current call of filter
  result,   \* what the entry returned
  prev      \* what the same call returned the time before

vars == <<cache, heap, pc, expr, gen, saved, mode, cur, todo, acc, draws, result, prev>>

None == <<"none">>

MaxDraws == 5

Init ==
  /\ cache = {}
  /\ heap = <<>>
  /\ pc = "idle"
  /\ expr = None
  /\ gen = None
  /\ saved = None
  /\ mode = None
  /\ cur = 0
  /\ todo = 0
  /\ acc = <<>>
  /\ draws = 0
  /\ result = None
  /\ prev = None

\* the caller evaluates expression e and enters the generator with the
\* state object st
Start(e, st, md) ==
  \E b \in {Build(e, cache)} :
  LET g == b.gen
  IN  /\ cache' = b.store
      /\ expr' = e
      /\ gen' = g
      /\ saved' = st
      /\ mode' = md
      /\ draws' = 0
      /\ acc' = <<>>
      /\ IF g[1] = "throw"
         THEN /\ pc' = "done" /\ result' = g
              /\ heap' = <<st>> /\ cur' = 1 /\ todo' = 0
         ELSE IF Calls(md) = 0
         THEN /\ pc' = "done" /\ result' = Arr(<<>>)
              /\ heap' = <<st>> /\ cur' = 1 /\ todo' = 0
         ELSE IF g[1] = "filter" \/ md[1] = "range"
         THEN /\ pc' = (IF g[1] = "filter" THEN "loop" ELSE "range")
              /\ result' = None
              /\ heap' = <<st>> /\ cur' = 1 /\ todo' = Calls(md)
         ELSE \E d \in {Stateful(g, <<st>>, 1)} :
                  /\ pc' = "done"
                  /\ result' = Returned(md, <<>>, d.value, d.state)
                  /\ heap' = d.heap /\ cur' = d.state /\ todo' = 0

Call ==
  /\ pc = "idle"
  /\ \E e \in Exprs, st \in CallerStates :
       \E md \in IF e[1] = "spliced" THEN {<<"run">>} ELSE Modes : Start(e, st, md)
  /\ prev' = None

\* the caller repeats the call it just made
Recall ==
  /\ pc = "done"
  /\ prev = None
  /\ Start(expr, saved, mode)
  /\ prev' = <<"returned", result>>

\* one pass through the for loop of Gen.range, src/gen/class.ts:372-375
RangeIter ==
  /\ pc = "range"
  /\ \E b \in {RangeBody(gen, heap, cur, acc)} :
         /\ heap' = b.heap
         /\ cur' = b.state
         /\ todo' = todo - 1
         /\ IF todo = 1
            THEN pc' = "done" /\ result' = Arr(b.result) /\ UNCHANGED acc
            ELSE acc' = b.result /\ UNCHANGED <<pc, result>>
  /\ UNCHANGED <<cache, expr, gen, saved, mode, draws, prev>>

\* one iteration of the while loop of Gen.filter, src/gen/class.ts:342-345
FilterIter ==
  /\ pc = "loop"
  /\ draws < MaxDraws
  /\ \E d \in {FilterBody(gen[2], gen[3], heap, cur)} :
         /\ heap' = d.heap
         /\ cur' = d.state
         /\ IF d.accepted
            THEN IF todo = 1
                 THEN /\ pc' = "done"
                      /\ result' = Returned(mode, acc, d.value, d.state)
                      /\ draws' = draws + 1
                      /\ todo' = 0
                      /\ UNCHANGED acc
                 ELSE /\ acc' = Append(acc, d.value)
                      /\ todo' = todo - 1
                      /\ draws' = 0
                      /\ UNCHANGED <<pc, result>>
            ELSE /\ draws' = draws + 1
                 /\ UNCHANGED <<pc, acc, todo, result>>
  /\ UNCHANGED <<cache, expr, gen, saved, mode, prev>>

\* some other module calls sized(max) between two calls
Construct ==
  /\ pc = "done"
  /\ \E k \in SizedMaxes : cache' = CallFn(<<"new", "sized">>, <<<<"sized", k>>, cache>>).store
  /\ UNCHANGED <<heap, pc, expr, gen, saved, mode, cur, todo, acc, draws, result, prev>>

\* the caller drops the result; the objects of the call are garbage
Return ==
  /\ pc = "done"
  /\ pc' = "idle"
  /\ heap' = <<>> /\ expr' = None /\ gen' = None /\ saved' = None /\ mode' = None
  /\ cur' = 0 /\ todo' = 0 /\ acc' = <<>> /\ draws' = 0 /\ result' = None
  /\ prev' = None
  /\ UNCHANGED cache

Next == Call \/ Recall \/ RangeIter \/ FilterIter \/ Construct \/ Return

Spec == Init /\ [][Next]_vars

\* the while loop of filter keeps running: nothing else runs in its thread
FairSpec == Spec /\ WF_vars(FilterIter)

(***************************************************************************)
(* What the properties below compare the session with.                     *)
(***************************************************************************)

\* (1664525 * s + 1013904223) mod 2^32 in whole numbers, without rounding
Advance(s) ==
  NatMod(NatAdd(NatMul(FromInt(1664525), s), FromInt(1013904223)), Pow2(32))

InSeedRange(s) == NatLess(s, Pow2(32))

\* the first of the successive calls of g.stateful, counted from k and
\* starting at state r, whose value predicate p accepts: its number draw and
\* its outcome, or draw 0 when no call up to MaxDraws is accepted.  Every
\* generator and predicate of Exprs looks at the two low bits of the seed
\* at most, and those repeat after 4 advances, so the calls up to MaxDraws
\* decide whether any call is ever accepted.
RECURSIVE FirstAccepted(_, _, _, _, _)
FirstAccepted(g, p, h, r, k) ==
  With(Stateful(g, h, r), LAMBDA d :
    IF CallPredicate(p, d.value)
    THEN [draw |-> k, value |-> d.value, heap |-> d.heap, state |-> d.state]
    ELSE IF k >= MaxDraws
    THEN [draw |-> 0, value |-> None, heap |-> d.heap, state |-> d.state]
    ELSE FirstAccepted(g, p, d.heap, d.state, k + 1))

\* g.stateful(state) for a generator whose outermost combinator may be filter
TopStateful(g, h, r) ==
  IF g[1] = "filter" THEN FirstAccepted(g[2], g[3], h, r, 1) ELSE Stateful(g, h, r)

\* the values range has pushed so far
RangeValues == IF pc = "done" THEN result[2] ELSE acc

\* a step of range that pushes a value
RangePush == mode[1] = "range" /\ pc \in {"range", "loop"} /\ todo' = todo - 1

Completed == pc = "done" /\ result[1] # "throw"

(***************************************************************************)
(* C1: for every seed s in [0, 2^32) the advance of the default generator, *)
(* as method and as function, is (1664525 * s + 1013904223) mod 2^32 and   *)
(* lies in [0, 2^32): checked on the seed the caller supplied and on the   *)
(* seed of the state the last call returned.  Every seed a call holds in a *)
(* State of the default generator lies in [0, 2^32).                       *)
(***************************************************************************)
C1_IncrementIsExact ==
  /\ \A i \in 1..Len(heap) : heap[i].lcg = lcg => InSeedRange(heap[i].seed)
  /\ \A i \in {1, cur} \cap (1..Len(heap)) :
       heap[i].lcg = lcg =>
         /\ LcgIncrement(lcg, heap[i].seed) = Advance(heap[i].seed)
         /\ increment(heap[i].seed) = Advance(heap[i].seed)
         /\ InSeedRange(LcgIncrement(lcg, heap[i].seed))

C1_Witness ==
  /\ pc = "done"
  /\ Len(heap) >= 3
  /\ heap[1] = State(SEED_MAX, lcg)
  /\ heap[3].seed = Advance(Advance(SEED_MAX))

(***************************************************************************)
(* C2: a call repeated with the same expression, the same state and the    *)
(* same entry returns what it returned before, whatever sized calls filled *)
(* the cache in between.                                                   *)
(***************************************************************************)
C2_Deterministic ==
  (pc = "done" /\ prev # None) => result = prev[2]

C2_Witness ==
  /\ pc = "done"
  /\ prev # None
  /\ expr = <<"sized", 4>>
  /\ mode = <<"range">>
  /\ \E e \in cache : e[1] = 2
  /\ result[1] = "arr"

(***************************************************************************)
(* C3: range returns exactly size values, 10 when size is omitted; its     *)
(* first call of g.stateful runs on the state supplied, every call runs on *)
(* the state the call before returned and pushes the value it returned;    *)
(* seeded.range from seed s is <<s, increment(s), increment(increment(s)), *)
(* ...>>.                                                                  *)
(***************************************************************************)
C3_RangeThreadsState ==
  /\ []((Completed /\ mode[1] = "range") =>
          /\ result[1] = "arr"
          /\ Len(result[2]) = (IF Len(mode) = 1 THEN 10 ELSE mode[2]))
  /\ []((mode[1] = "range" /\ pc \in {"range", "loop"} /\ acc = <<>> /\ draws = 0) =>
          (cur = 1 /\ heap = <<saved>>))
  /\ [][RangePush =>
          LET d == TopStateful(gen, heap, cur)
          IN  /\ RangeValues' = Append(acc, d.value)
              /\ heap' = d.heap
              /\ cur' = d.state]_vars
  /\ []((mode[1] = "range" /\ expr = seeded) =>
          \A i \in 1..Len(RangeValues) :
            RangeValues[i] = Num(IF i = 1 THEN saved.seed
                                 ELSE LcgIncrement(saved.lcg, RangeValues[i - 1][2])))

C3_Witness ==
  /\ pc = "done"
  /\ mode = <<"range">>
  /\ expr = seeded
  /\ saved = State(FromInt(1357954837), lcg)
  /\ Len(result[2]) = 10
  /\ result[2][2] = Num(Advance(FromInt(1357954837)))
  /\ result[2][3] = Num(Advance(Advance(FromInt(1357954837))))

\* the seed of the state a call of stateful returned in result
ReturnedSeed == heap[result[2][2][2]].seed

(***************************************************************************)
(* C4: g.chain(f).stateful(s) is f(v).stateful(s1) for (v, s1) =           *)
(* g.stateful(s): the generator f returns runs on the state g returned,    *)
(* never on s, and g runs once.  From seed s, seeded.chain(x =>            *)
(* seeded.map(y => [x, y])) yields [s, increment(s)], leaves the seed      *)
(* advanced twice and has created two states.                              *)
(***************************************************************************)
C4_ChainRunsOnReturnedState ==
  (Completed /\ gen[1] = "chain" /\ mode[1] = "stateful") =>
    LET d1 == Stateful(gen[2], <<saved>>, 1)
        d2 == Stateful(CallKleisli(gen[3], d1.value), d1.heap, d1.state)
        s1 == LcgIncrement(saved.lcg, saved.seed)
    IN  /\ result = Arr(<<d2.value, Ref(d2.state)>>)
        /\ heap = d2.heap
        /\ expr = <<"chain", seeded, <<"pairSeeded">>>> =>
             /\ result[2][1] = Arr(<<Num(saved.seed), Num(s1)>>)
             /\ ReturnedSeed = LcgIncrement(saved.lcg, s1)
             /\ Len(heap) = 3

C4_Witness ==
  /\ pc = "done"
  /\ mode = <<"stateful">>
  /\ expr = <<"chain", seeded, <<"pairSeeded">>>>
  /\ saved = State(SEED_MAX, lcg)
  /\ result[2][1] = Arr(<<Num(SEED_MAX), Num(Advance(SEED_MAX))>>)

(***************************************************************************)
(* C5: fg.apply(ga) from state s runs fg on s giving (f, s1), then ga on   *)
(* s1 giving (a, s2), and returns (f(a), s2); from seed s,                 *)
(* seeded.map(x => y => [x, y]).apply(seeded) returns [s, increment(s)].   *)
(***************************************************************************)
C5_ApplyRunsFunctionFirst ==
  (Completed /\ gen[1] = "apply" /\ mode[1] # "range") =>
    LET d1 == Stateful(gen[2], <<saved>>, 1)
        d2 == Stateful(gen[3], d1.heap, d1.state)
        s1 == LcgIncrement(saved.lcg, saved.seed)
    IN  /\ result = Returned(mode, <<>>, CallFn(d1.value[2], d2.value), d2.state)
        /\ heap = d2.heap
        /\ (expr = <<"apply", <<"map", seeded, <<"pair">>>>, seeded>> /\ mode[1] = "run") =>
             /\ result = Arr(<<Num(saved.seed), Num(s1)>>)
             /\ result # Arr(<<Num(s1), Num(saved.seed)>>)

C5_Witness ==
  /\ pc = "done"
  /\ mode = <<"run">>
  /\ expr = <<"apply", <<"map", seeded, <<"pair">>>>, seeded>>
  /\ saved = State(FromInt(1357954837), lcg)
  /\ result = Arr(<<Num(FromInt(1357954837)), Num(Advance(FromInt(1357954837)))>>)

(***************************************************************************)
(* C6: g.map(f).stateful(s) is (f(v), s1) for (v, s1) = g.stateful(s), so  *)
(* g.map(x => x) returns the value and the state g returns, and every pass *)
(* of the range of g.map(x => x) pushes the value and moves to the state   *)
(* that the pass of the range of g does.                                   *)
(***************************************************************************)
C6_MapKeepsTransition ==
  /\ []((Completed /\ gen[1] = "map" /\ mode[1] # "range") =>
          LET d == Stateful(gen[2], <<saved>>, 1)
          IN  /\ result = Returned(mode, <<>>, CallFnIn(gen[3], d.value, d.heap), d.state)
              /\ heap = d.heap
              /\ cur = d.state
              /\ gen[3] = <<"identity">> => result = Returned(mode, <<>>, d.value, d.state))
  /\ [][(gen[1] = "map" /\ gen[3] = <<"identity">> /\ pc = "range") =>
          LET b == RangeBody(gen[2], heap, cur, acc)
          IN  /\ RangeValues' = b.result
              /\ heap' = b.heap
              /\ cur' = b.state]_vars

C6_Witness ==
  /\ pc = "done"
  /\ mode = <<"range">>
  /\ expr = <<"map", seeded, <<"identity">>>>
  /\ saved = State(SEED_MAX, lcg)
  /\ Len(result[2]) = 10
  /\ result[2][2] = Num(Advance(SEED_MAX))

(***************************************************************************)
(* C7: when g.filter(p).stateful(s) returns (v, s'), p(v) holds and        *)
(* (v, s') is the first accepted draw of the draws that run g on s, then   *)
(* on the state the rejected draw returned, and so on; s' is the state the *)
(* accepted draw returned.  For seeded every draw creates the state with   *)
(* the seed advanced once more, the k-th draw is the seed advanced k - 1   *)
(* times, the draws before the one returned are rejected and s' holds the  *)
(* seed advanced k times.                                                  *)
(***************************************************************************)
C7_FilterReturnsFirstAccepted ==
  (Completed /\ gen[1] = "filter" /\ mode[1] = "stateful") =>
    LET first == FirstAccepted(gen[2], gen[3], <<saved>>, 1, 1)
    IN  /\ CallPredicate(gen[3], result[2][1])
        /\ first.draw = draws
        /\ result = Arr(<<first.value, Ref(first.state)>>)
        /\ heap = first.heap
        /\ gen[2] = seeded =>
             /\ Len(heap) = draws + 1
             /\ heap[1] = saved
             /\ \A j \in 1..draws :
                  heap[j + 1] = State(LcgIncrement(saved.lcg, heap[j].seed), saved.lcg)
             /\ result[2] = <<Num(heap[draws].seed), Ref(draws + 1)>>
             /\ \A j \in 1..(draws - 1) : ~CallPredicate(gen[3], Num(heap[j].seed))

C7_Witness ==
  /\ pc = "done"
  /\ mode = <<"stateful">>
  /\ expr = <<"filter", seeded, <<"mod4", 2>>>>
  /\ draws >= 3
  /\ result[2][2] = Ref(draws + 1)

(***************************************************************************)
(* C8: g.filter(p).run(s) returns exactly when some draw reachable from s  *)
(* is accepted: an accepted draw is eventually reached and returned, and   *)
(* when no draw is accepted the loop is never left, neither by a return    *)
(* nor by an error.                                                        *)
(***************************************************************************)
FilterCall == gen[1] = "filter" /\ mode[1] # "range"

Satisfiable == FirstAccepted(gen[2], gen[3], <<saved>>, 1, 1).draw > 0

C8_FilterTerminatesIffSatisfiable ==
  /\ [](FilterCall /\ pc = "done" => Satisfiable)
  /\ [][(FilterCall /\ pc = "loop" /\ ~Satisfiable) => (pc' = "loop" /\ result' = None)]_vars
  /\ ((FilterCall /\ pc = "loop" /\ Satisfiable) ~> (pc = "done"))

C8_Witness ==
  /\ pc = "loop"
  /\ mode = <<"run">>
  /\ expr = <<"filter", Increment(seeded), <<"even">>>>
  /\ saved = State(FromInt(1357954837), lcg)
  /\ draws >= 4
  /\ ~Satisfiable

(***************************************************************************)
(* C9: throughout a call the State object the caller passed keeps the seed *)
(* and the lcg it had; the state seeded and stated return is another       *)
(* object.                                                                 *)
(***************************************************************************)
C9_CallerStateUntouched ==
  /\ heap # <<>> => heap[1] = saved
  /\ (Completed /\ mode[1] = "stateful" /\ expr \in {seeded, stated}) =>
        result[2][2] # Ref(1)

C9_Witness ==
  /\ pc = "done"
  /\ mode = <<"range">>
  /\ expr = stated
  /\ Len(heap) = 11
  /\ result[2][1] = Ref(1)
  /\ heap[1] = State(SEED_MAX, lcg)

(***************************************************************************)
(* C10: g.modify(f).stateful(s) is (v, f(s1)) for (v, s1) = g.stateful(s). *)
(* seeded returns the incoming seed and stated the incoming state, and     *)
(* both return one new state whose seed is lcg.increment of the incoming   *)
(* seed and whose lcg is the incoming lcg.                                 *)
(***************************************************************************)
C10_ModifyAppliesAfter ==
  (Completed /\ gen[1] = "modify" /\ mode[1] = "stateful") =>
    LET d == Stateful(gen[2], <<saved>>, 1)
        m == CallStateFn(gen[3], d.heap, d.state)
    IN  /\ result = Arr(<<d.value, Ref(m.state)>>)
        /\ heap = m.heap
        /\ expr \in {seeded, stated} =>
             /\ result[2][1] = (IF expr = seeded THEN Num(saved.seed) ELSE Ref(1))
             /\ result[2][2] = Ref(2)
             /\ heap = <<saved, State(LcgIncrement(saved.lcg, saved.seed), saved.lcg)>>

C10_Witness ==
  /\ pc = "done"
  /\ mode = <<"stateful">>
  /\ expr = seeded
  /\ saved = State(<<7>>, smallLcg)
  /\ result = Arr(<<Num(<<7>>), Ref(2)>>)
  /\ heap[2] = State(<<6>>, smallLcg)

(***************************************************************************)
(* C11: for every whole n >= 1 and every seed of the default generator,    *)
(* uniform(n).run(state) is a whole number in [0, n), at most n - 1.       *)
(***************************************************************************)
C11_UniformBelowMax ==
  (Completed /\ expr[1] = "uniform" /\ mode[1] = "run" /\ saved.lcg = lcg) =>
    /\ result[1] = "flt"
    /\ result[4] >= 0
    /\ FLeq(Zero(FALSE), result)
    /\ FLess(result, FromInteger(expr[2]))

(***************************************************************************)
(* C12: the constructor call of an index generator throws, before any run, *)
(* when the size is below 1 (sized(0, []), uniform(0)), when the length of *)
(* the distribution differs from the size (sized(5, six weights)) or when  *)
(* the weights, added from left to right, do not give 1                    *)
(* (sized(5, [0.1, 0.15, 0.2, 0.25, 0.2])); otherwise it returns a         *)
(* generator.                                                              *)
(***************************************************************************)
IndexConstructor == pc = "done" /\ expr[1] \in {"sized", "sizedWith", "uniform"}

\* the conditions of the claim, on the arguments of the constructor call
Rejected(e) ==
  \/ e[2] < 1
  \/ /\ e[1] = "sizedWith"
     /\ \/ Len(e[3]) # e[2]
        \/ ~FEq(FSum(Tail(e[3]), Head(e[3])), One)

C12_ConstructionFails ==
  IndexConstructor =>
    /\ (result[1] = "throw") <=> Rejected(expr)
    /\ expr \in {<<"sizedWith", 0, <<>>>>, <<"uniform", 0>>,
                 <<"sizedWith", 5, Hundredths(<<10, 15, 20, 25, 20, 10>>)>>,
                 <<"sizedWith", 5, Hundredths(<<10, 15, 20, 25, 20>>)>>}
         => result[1] = "throw"
    /\ result[1] = "throw" => (heap = <<saved>> /\ cur = 1 /\ acc = <<>>)

C12_Witness ==
  /\ pc = "done"
  /\ expr = <<"sizedWith", 5, Hundredths(<<10, 15, 20, 25, 20>>)>>
  /\ mode = <<"run">>
  /\ result[1] = "throw"
  /\ heap = <<saved>>

(***************************************************************************)
(* C13: for a distribution d of n non-negative weights that sized accepts  *)
(* and every seed s, the index sized(n, d) produces for s is the least i   *)
(* with s / (2^32 - 1) <= d[0] + ... + d[i]; it lies in [0, n - 1], and no *)
(* call throws.                                                            *)
(***************************************************************************)
\* the distribution of the sized call e
Weights(e) == IF e[1] = "sized" THEN createDistribution(e[2]) ELSE e[3]

NonNegative(d) == \A i \in 1..Len(d) : FLeq(Zero(FALSE), d[i])

\* the i in 1..n with value <= d[1] + ... + d[i]
AtOrAbove(d, value) ==
  {i \in 1..Len(d) : FLeq(value, FSum(SubSeq(d, 2, i), d[1]))}

\* v is the least index, counted from 0, of a partial sum of d at or above
\* seed / (2^32 - 1)
IsLeastIndex(d, seed, v) ==
  With(AtOrAbove(d, FDiv(FromNat(seed), FromNat(SEED_MAX))), LAMBDA above :
    /\ above # {}
    /\ v[1] = "num"
    /\ \E i \in above :
         /\ \A j \in above : i <= j
         /\ v = Num(FromInt(i - 1))
         /\ i - 1 <= Len(d) - 1)

\* the values the calls of g.stateful have produced so far, in order
Produced ==
  CASE mode[1] = "range" -> RangeValues
    [] mode[1] = "run" -> IF pc = "done" THEN <<result>> ELSE <<>>
    [] mode[1] = "stateful" -> IF pc = "done" THEN <<result[2][1]>> ELSE <<>>

C13_SizedLeastIndex ==
  (pc \in {"range", "done"} /\ expr[1] \in {"sized", "sizedWith"} /\ gen[1] # "throw") =>
    With(Weights(expr), LAMBDA d :
      NonNegative(d) =>
        \A k \in 1..Len(Produced) : IsLeastIndex(d, heap[k].seed, Produced[k]))

C13_Witness ==
  /\ pc = "done"
  /\ expr = <<"sizedWith", 3, Hundredths(<<10, 20, 70>>)>>
  /\ mode = <<"range">>
  /\ saved = State(<<>>, lcg)
  /\ Len(result[2]) = 10
  /\ result[2][1] = Num(<<>>)
  /\ \E k \in 1..10 : result[2][k] = Num(<<1>>)
  /\ \E k \in 1..10 : result[2][k] = Num(<<2>>)

(***************************************************************************)
(* C14: a distribution that contains a negative weight is rejected by the  *)
(* constructor call, also when its length matches and its weights sum to 1 *)
(* (sized(2, [1.5, -0.5]) throws).                                         *)
(***************************************************************************)
C14_NegativeWeightRejected ==
  (pc = "done" /\ expr[1] = "sizedWith" /\ ~NonNegative(expr[3])) => result[1] = "throw"

(***************************************************************************)
(* C15: for all valid options (0 <= min <= max and, when given, a bias in  *)
(* [min, max] together with an influence in [0, 1]) and every seed,        *)
(* every value positive(options) produces lies in [min, max].              *)
(***************************************************************************)
\* min and max of the options o with their defaults
MinOf(o) == Default(o.min, Zero(FALSE))

MaxOf(o) == Default(o.max, FromNat(Pow2(32)))

\* the options the description of positive calls valid
Accepted(o) ==
  /\ FLeq(Zero(FALSE), MinOf(o))
  /\ FLeq(MinOf(o), MaxOf(o))
  /\ (o.bias = Undefined) <=> (o.influence = Undefined)
  /\ o.bias # Undefined => (FLeq(MinOf(o), o.bias) /\ FLeq(o.bias, MaxOf(o)))
  /\ o.influence # Undefined => (FLeq(Zero(FALSE), o.influence) /\ FLeq(o.influence, One))

Within(v, min, max) == FLeq(min, v) /\ FLeq(v, max)

C15_PositiveInRange ==
  (pc \in {"range", "done"} /\ expr[1] = "positive" /\ Accepted(expr[2])
     /\ gen[1] # "throw") =>
    \A k \in 1..Len(Produced) : Within(Produced[k], MinOf(expr[2]), MaxOf(expr[2]))

(***************************************************************************)
(* C16: for all min <= max <= 0 and every seed, negative({ min, max })     *)
(* constructs without error, every value it produces lies in [min, max],   *)
(* and the value of a call is the negated value of the same call of        *)
(* positive over the mirrored range [-max, -min].                          *)
(***************************************************************************)
\* positive over the range of the options o of negative, mirrored
Mirrored(o) ==
  positive(Options(FNeg(Default(o.max, Zero(FALSE))),
                   FNeg(Default(o.min, FNeg(FromNat(Pow2(32))))),
                   Undefined, Undefined, Undefined))

C16_NegativeInRange ==
  (pc \in {"range", "done"} /\ expr[1] = "negative" /\ expr[2].unchecked = Undefined
     /\ FLeq(Default(expr[2].min, FNeg(FromNat(Pow2(32)))), Default(expr[2].max, Zero(FALSE)))
     /\ FLeq(Default(expr[2].max, Zero(FALSE)), Zero(FALSE))) =>
    /\ gen[1] # "throw"
    /\ \A k \in 1..Len(Produced) :
         Within(Produced[k], Default(expr[2].min, FNeg(FromNat(Pow2(32)))),
                Default(expr[2].max, Zero(FALSE)))
    /\ (pc = "done" /\ mode[1] = "run") =>
         FEq(result, FNeg(Stateful(Mirrored(expr[2]), <<saved>>, 1).value))

(***************************************************************************)
(* C17: without unchecked, positive(options) throws at construction        *)
(* exactly when min < 0, max < 0, max < min, bias comes without influence, *)
(* influence comes without bias, bias is outside [min, max] or influence   *)
(* is outside [0, 1]; with unchecked: true it never throws.                *)
(***************************************************************************)
C17_PositiveValidation ==
  (pc = "done" /\ expr[1] = "positive") =>
    IF expr[2].unchecked = Bool(TRUE) THEN gen[1] # "throw" /\ result[1] # "throw"
    ELSE (result[1] = "throw") <=> ~Accepted(expr[2])

C17_Witness ==
  /\ pc = "done"
  /\ mode = <<"run">>
  /\ expr = <<"positive", Options(FromInteger(2), FromInteger(10), Undefined, Dec(1, 2),
                                  Undefined)>>
  /\ result[1] = "throw"

(***************************************************************************)
(* C18: for every valid range, every bias in it and every seed,            *)
(* positive({ min, max, bias, influence: 0 }) produces the values          *)
(* positive({ min, max }) produces: the mix is 0 and                       *)
(* unbiased * (1 - 0) + bias * 0 is the unbiased value.                    *)
(***************************************************************************)
\* the options o without bias and influence
Unbiased(o) == [o EXCEPT !.bias = Undefined, !.influence = Undefined]

ScalerRun(k) ==
  /\ pc = "done" /\ mode[1] = "run"
  /\ expr[1] = "map" /\ expr[3][1] = k /\ expr[2][1] = "of"

\* the inputs of the model between the low end of the source and value
InputsUpTo(source, value) ==
  {c[4] : c \in {d \in ScalerCalls : d[2] = source}} \cap
    {y \in {c[4] : c \in ScalerCalls} : FLeq(source.min, y) /\ FLeq(y, value)}

C19_ScalerIdentityAndBounds ==
  /\ (ScalerRun("createScaler") /\ expr[3][2] = expr[3][3]
        /\ IsZero(expr[3][2].min) /\ FLeq(One, expr[3][2].max)) =>
       FEq(result, expr[2][2])
  /\ (ScalerRun("createPositiveScaler") /\ FLess(expr[3][2].min, expr[3][2].max)) =>
       /\ FEq(expr[2][2], expr[3][2].min) => FEq(result, expr[3][3].min)
       /\ FEq(expr[2][2], expr[3][2].max) => FEq(result, expr[3][3].max)
       /\ Within(result, expr[3][3].min, expr[3][3].max)
       /\ \A y \in InputsUpTo(expr[3][2], expr[2][2]) :
            FLeq(createPositiveScaler(expr[3][2], expr[3][3], y), result)

(***************************************************************************)
(* C20: a positive-range scaler built from a source interval of zero width *)
(* (source.min = source.max) returns target.min for its input instead of   *)
(* dividing by zero.                                                       *)
(***************************************************************************)
C20_ZeroWidthSourceGuarded ==
  (ScalerRun("createPositiveScaler") /\ FEq(expr[3][2].min, expr[3][2].max)) =>
    FEq(result, expr[3][3].min)

(***************************************************************************)
(* C21: for every range with min <= max and every integer x,               *)
(* clamp(x, { min, max }) is x when min <= x <= max, min when x <= min and *)
(* max when x >= max; the result always lies in [min, max].                *)
(***************************************************************************)
C21_ClampSaturates ==
  (ScalerRun("clamp") /\ FLeq(expr[3][2].min, expr[3][2].max)) =>
    /\ Within(expr[2][2], expr[3][2].min, expr[3][2].max) => result = expr[2][2]
    /\ FLeq(expr[2][2], expr[3][2].min) => result = expr[3][2].min
    /\ FLeq(expr[3][2].max, expr[2][2]) => result = expr[3][2].max
    /\ Within(result, expr[3][2].min, expr[3][2].max)

C21_Witness ==
  /\ ScalerRun("clamp")
  /\ expr[3][2] = Whole(2, 5)
  /\ expr[2][2] = FromInteger(7)
  /\ result = FromInteger(5)
(***************************************************************************)
(* C22: for all whole numbers 0 <= min <= max <= 2^32 and every seed in    *)
(* [0, 2^32), every value integer({ min, max }), given neither target nor  *)
(* influence, produces lies in [min, max].                                 *)
(***************************************************************************)
C22_IntegerInRange ==
  (pc \in {"range", "done"} /\ expr[1] = "integer"
     /\ expr[2].target = Undefined /\ expr[2].influence = Undefined
     /\ expr[2].min # Undefined
     /\ FLeq(Zero(FALSE), expr[2].min) /\ FLeq(expr[2].min, MaxOf(expr[2]))
     /\ FLeq(MaxOf(expr[2]), FromNat(Pow2(32)))
     /\ InSeedRange(saved.seed)) =>
    \A k \in 1..Len(Produced) : Within(Produced[k], expr[2].min, MaxOf(expr[2]))

C22_Witness ==
  /\ pc = "done" /\ mode = <<"range">>
  /\ expr[1] = "integer"
  /\ expr[2].min = FromInteger(2) /\ expr[2].max = FromInteger(10)
  /\ expr[2].target = Undefined /\ expr[2].influence = Undefined
  /\ saved = State(FromInt(1357954837), lcg)
  /\ Len(result[2]) = 10
  /\ result[2][1] = FromInteger(4)

(***************************************************************************)
(* C23: every value integer(options) produces is a whole number, for every *)
(* seed and all options with whole min <= max, those with a target and an  *)
(* influence in (0, 1] among them.                                         *)
(***************************************************************************)
C23_IntegerIsWhole ==
  (pc \in {"range", "done"} /\ expr[1] = "integer" /\ gen[1] # "throw") =>
    \A k \in 1..Len(Produced) : FFloor(Produced[k]) = Produced[k]

(***************************************************************************)
(* C24: for all whole numbers min <= max, with the range from 0 up, below  *)
(* 0 or across 0, and every seed, every value number({ min, max })         *)
(* produces is a whole number in [min, max]; number({ min: -57, max: 1400  *)
(* }) run on the seed 1357954837 returns the same whole number of          *)
(* [-57, 1400] on every run.                                               *)
(***************************************************************************)
C24_NumberWholeInRange ==
  (pc \in {"range", "done"} /\ expr[1] = "number"
     /\ FLeq(Default(expr[2].min, FNeg(FromNat(Pow2(32)))), MaxOf(expr[2]))) =>
    /\ \A k \in 1..Len(Produced) :
         /\ FFloor(Produced[k]) = Produced[k]
         /\ Within(Produced[k], Default(expr[2].min, FNeg(FromNat(Pow2(32)))),
                   MaxOf(expr[2]))
    /\ (pc = "done" /\ prev # None) => result = prev[2]

C24_Witness ==
  /\ pc = "done" /\ mode = <<"run">> /\ prev # None
  /\ expr[1] = "number"
  /\ expr[2].min = FromInteger(-57) /\ expr[2].max = FromInteger(1400)
  /\ saved = State(FromInt(1357954837), lcg)
  /\ result = FromInteger(404)

(***************************************************************************)
(* C25: for every list of one or more values and every seed in [0, 2^32),  *)
(* constants(values) returns an element of values, never undefined; a      *)
(* union over one or more generators runs one of them on every call.       *)
(***************************************************************************)
C25_ConstantsWithinValues ==
  /\ (pc \in {"range", "done"} /\ expr[1] = "constants") =>
       \A k \in 1..Len(Produced) : \E i \in 1..Len(expr[2]) : Produced[k] = expr[2][i]
  /\ (pc \in {"range", "done"} /\ expr[1] = "union" /\ gen[1] # "throw") =>
       \A k \in 1..Len(Produced) : Produced[k][1] = "num"

(***************************************************************************)
(* C26: for every seed s in [0, 2^32), vector(seeded, 10) run from s holds *)
(* 10 values, s and its successive increments, no two of them equal; so    *)
(* does every element of a range over that vector.                         *)
(***************************************************************************)
C26_VectorDistinct ==
  (pc \in {"range", "done"} /\ expr = <<"vector", seeded, 10>>) =>
    \A k \in 1..Len(Produced) :
      /\ Produced[k][1] = "arr"
      /\ Len(Produced[k][2]) = 10
      /\ \A i \in 1..9 :
           Produced[k][2][i + 1] = Num(LcgIncrement(saved.lcg, Produced[k][2][i][2]))
      /\ \A i \in 1..10 : \A j \in 1..10 :
           i < j => Produced[k][2][i] # Produced[k][2][j]

C26_Witness ==
  /\ pc = "done" /\ mode = <<"range">>
  /\ expr = <<"vector", seeded, 10>>
  /\ saved = State(SEED_MAX, lcg)
  /\ Len(result[2]) = 10
  /\ result[2][1][2][1] = Num(SEED_MAX)
  /\ result[2][1][2][2] = Num(Advance(SEED_MAX))
  /\ Len(result[2][10][2]) = 10

(***************************************************************************)
(* C27: for every array of distinct values, every fraction in [0, 1] and   *)
(* every seed, the array spliced returns is a subsequence of the array it  *)
(* was given: its elements are elements of that array, in strictly         *)
(* increasing order of their index there.                                  *)
(***************************************************************************)
C27_SplicedKeepsOrder ==
  (pc = "done" /\ expr[1] = "spliced" /\ result[1] = "arr") =>
    \A i \in 1..Len(result[2]) : \A j \in 1..Len(result[2]) :
      i < j =>
        \E p \in 1..Len(expr[2][1]) : \E q \in 1..Len(expr[2][1]) :
          /\ p < q
          /\ expr[2][1][p] = result[2][i]
          /\ expr[2][1][q] = result[2][j]

(***************************************************************************)
(* C28: for every target range with min <= max, those below zero among     *)
(* them, createScaler(source, target) maps source.min to target.min and    *)
(* source.max to target.max; so number({ min, max }) returns min on the    *)
(* least seed and max on the greatest.                                     *)
(***************************************************************************)
C28_ScalerReachesBothBounds ==
  /\ (ScalerRun("createScaler") /\ FLeq(expr[3][3].min, expr[3][3].max)
        /\ FLess(expr[3][2].min, expr[3][2].max)) =>
       /\ expr[2][2] = expr[3][2].min => result = expr[3][3].min
       /\ expr[2][2] = expr[3][2].max => result = expr[3][3].max
  /\ (pc = "done" /\ mode[1] = "run" /\ expr[1] = "number" /\ saved.lcg = lcg
        /\ expr[2].min # Undefined /\ FLeq(expr[2].min, MaxOf(expr[2]))) =>
       /\ saved.seed = <<>> => result = expr[2].min
       /\ saved.seed = SEED_MAX => result = MaxOf(expr[2])

(***************************************************************************)
(* C29: an alternative of weight 0 is never selected: for every            *)
(* distribution of non-negative weights that sized accepts and every seed  *)
(* in [0, 2^32), 0 and 2^32 - 1 among them, the index sized returns has a  *)
(* weight other than 0; so a union never runs an arm of probability 0.     *)
(***************************************************************************)
C29_ZeroWeightNeverSelected ==
  /\ (pc \in {"range", "done"} /\ expr[1] = "sizedWith" /\ gen[1] # "throw"
        /\ NonNegative(expr[3])) =>
       \A k \in 1..Len(Produced) :
         /\ Produced[k][1] = "num"
         /\ ~IsZero(expr[3][Digit(Produced[k][2], 1) + 1])
  /\ (pc = "done" /\ mode[1] = "run" /\ expr[1] = "union" /\ gen[1] # "throw"
        /\ expr[3] # Undefined /\ NonNegative(expr[3]) /\ saved.lcg = lcg) =>
       (IsZero(expr[3][1]) => result # expr[2][1][2])

(***************************************************************************)
(* C30: when the caller gives no target, the target integer uses lies in   *)
(* [min, max]; so for all whole numbers min <= max, every influence in     *)
(* [0, 1] and every seed, every value integer({ min, max, influence })     *)
(* produces lies in [min, max].                                            *)
(***************************************************************************)
C30_DefaultTargetWithinRange ==
  (pc \in {"range", "done"} /\ expr[1] = "integer" /\ gen[1] = "chain"
     /\ expr[2].target = Undefined /\ expr[2].min # Undefined
     /\ FLeq(expr[2].min, MaxOf(expr[2]))) =>
    /\ Within(gen[3][2].target, expr[2].min, MaxOf(expr[2]))
    /\ \A k \in 1..Len(Produced) : Within(Produced[k], expr[2].min, MaxOf(expr[2]))

====
